---- MODULE Spec2Model ----
(***************************************************************************)
(* A model of the W&M course-list scraper: the Scraper class               *)
(* (src/unnamed/part_004) and the Class record (src/classes/Class.ts).     *)
(*                                                                         *)
(* Text is modelled as a sequence of one-character strings, so that the    *)
(* setters' replace / trim / parseInt are computed as the code computes    *)
(* them.  A JavaScript value is a tagged record: [t |-> "num", v |-> n],   *)
(* [t |-> "str", v |-> chars], [t |-> "arr", v |-> values], null,          *)
(* undefined, NaN, booleans and non-integer decimals.                      *)
(***************************************************************************)
EXTENDS Integers, Sequences, FiniteSets, TLC

\* ------------------------------------------------------------------------
\* JavaScript values
\* ------------------------------------------------------------------------
null == [t |-> "null"]
undefined == [t |-> "undefined"]
NaN == [t |-> "NaN"]
Num(n) == [t |-> "num", v |-> n]
\* a finite non-integer number m * 10^(-s), s > 0, m not divisible by 10
Dec(m, s) == [t |-> "dec", m |-> m, s |-> s]
Infinity(sign) == [t |-> "inf", v |-> sign]
Str(chars) == [t |-> "str", v |-> chars]
Arr(items) == [t |-> "arr", v |-> items]
Bool(b) == [t |-> "bool", v |-> b]

\* ToBoolean: what `if (x)`, `!x` and `x ? a : b` test
Truthy(x) ==
    CASE x.t \in {"null", "undefined", "NaN"} -> FALSE
      [] x.t = "num" -> x.v # 0
      [] x.t = "str" -> x.v # <<>>
      [] x.t = "bool" -> x.v
      [] OTHER -> TRUE

\* ------------------------------------------------------------------------
\* Text helpers (String.prototype.replace / trim, parseInt, parseFloat,
\* Number.prototype.toString)
\* ------------------------------------------------------------------------
Digits == <<"0", "1", "2", "3", "4", "5", "6", "7", "8", "9">>
IsDigit(c) == \E i \in 1..10 : Digits[i] = c
DigitVal(c) == (CHOOSE i \in 1..10 : Digits[i] = c) - 1
LineBreaks == {"\n", "\r"}
WhiteSpace == {" ", "\t", "\n", "\r", "\f"}

\* s.replace(/(\r\n|\n|\r)/gm, ""): every CR and every LF is removed
StripLineBreaks(s) == SelectSeq(s, LAMBDA c : c \notin LineBreaks)

RECURSIVE TrimStart(_)
TrimStart(s) ==
    IF s # <<>> /\ Head(s) \in WhiteSpace THEN TrimStart(Tail(s)) ELSE s

RECURSIVE TrimEnd(_)
TrimEnd(s) ==
    IF s # <<>> /\ s[Len(s)] \in WhiteSpace
    THEN TrimEnd(SubSeq(s, 1, Len(s) - 1))
    ELSE s

\* String.prototype.trim
Trim(s) == TrimEnd(TrimStart(s))

\* s.replace('*', ''): a string pattern replaces the FIRST occurrence only
RemoveFirst(s, c) ==
    IF \E i \in 1..Len(s) : s[i] = c
    THEN LET i == CHOOSE k \in 1..Len(s) :
                      s[k] = c /\ \A j \in 1..(k - 1) : s[j] # c
         IN SubSeq(s, 1, i - 1) \o SubSeq(s, i + 1, Len(s))
    ELSE s

\* the longest prefix of s made of decimal digits
RECURSIVE DigitPrefix(_)
DigitPrefix(s) ==
    IF s # <<>> /\ IsDigit(Head(s))
    THEN <<Head(s)>> \o DigitPrefix(Tail(s))
    ELSE <<>>

RECURSIVE DigitsToNat(_)
DigitsToNat(d) ==
    IF d = <<>> THEN 0
    ELSE 10 * DigitsToNat(SubSeq(d, 1, Len(d) - 1)) + DigitVal(d[Len(d)])

RECURSIVE NatToDigits(_)
NatToDigits(n) ==
    IF n < 10 THEN <<Digits[n + 1]>>
    ELSE NatToDigits(n \div 10) \o <<Digits[(n % 10) + 1]>>

RECURSIVE Pow10(_)
Pow10(k) == IF k = 0 THEN 1 ELSE 10 * Pow10(k - 1)

\* [sign, rest]: an optional leading + or - and what follows it
SplitSign(s) ==
    IF s # <<>> /\ Head(s) = "-" THEN [sign |-> -1, rest |-> Tail(s)]
    ELSE IF s # <<>> /\ Head(s) = "+" THEN [sign |-> 1, rest |-> Tail(s)]
    ELSE [sign |-> 1, rest |-> s]

\* parseInt(s) with no radix, for text without a 0x prefix: leading white
\* space is skipped, then an optional sign, then the longest run of digits;
\* NaN when that run is empty.
parseIntStr(s) ==
    LET p == SplitSign(TrimStart(s))
        d == DigitPrefix(p.rest)
    IN IF d = <<>> THEN NaN ELSE Num(p.sign * DigitsToNat(d))

\* the number m * 10^(-s) as a value: an integer, or a decimal in lowest
\* terms (s may be negative)
RECURSIVE Normalize(_, _)
Normalize(m, s) ==
    IF m = 0 THEN Num(0)
    ELSE IF s <= 0 THEN Num(m * Pow10(-s))
    ELSE IF m % 10 = 0 THEN Normalize(m \div 10, s - 1)
    ELSE Dec(m, s)

\* parseFloat(s): leading white space is skipped, then the longest prefix
\* sign? digits* (. digits*)? (e sign? digits+)? holding at least one
\* mantissa digit, or the literal Infinity; NaN otherwise.
InfinityText == <<"I", "n", "f", "i", "n", "i", "t", "y">>

\* the value of the mantissa digits (integer and fraction part together,
\* scale digits of them after the point) and the exponent part ex
FloatValue(sign, digits, scale, ex) ==
    Normalize(sign * DigitsToNat(digits),
              scale - ex.sign * DigitsToNat(DigitPrefix(ex.rest)))

\* after the mantissa (ip before the point, fp after it): tail is what
\* follows, an exponent when it starts with e or E
FloatExponent(sign, ip, fp, tail) ==
    IF ip = <<>> /\ fp = <<>> THEN NaN
    ELSE FloatValue(sign, ip \o fp, Len(fp),
                    IF tail # <<>> /\ Head(tail) \in {"e", "E"}
                    THEN SplitSign(Tail(tail))
                    ELSE [sign |-> 1, rest |-> <<>>])

\* after a decimal point: fp is the run of digits that afterDot starts with
FloatFraction(sign, ip, fp, afterDot) ==
    FloatExponent(sign, ip, fp, SubSeq(afterDot, Len(fp) + 1, Len(afterDot)))

\* after the integer digits ip: a decimal point and a fraction, or not
FloatMantissa(sign, ip, after) ==
    IF after # <<>> /\ Head(after) = "."
    THEN FloatFraction(sign, ip, DigitPrefix(Tail(after)), Tail(after))
    ELSE FloatExponent(sign, ip, <<>>, after)

\* after the sign: ip is the run of digits that rest starts with
FloatDigits(sign, ip, rest) ==
    FloatMantissa(sign, ip, SubSeq(rest, Len(ip) + 1, Len(rest)))

\* p is [sign, rest] of the text without its leading white space
FloatSigned(p) ==
    IF Len(p.rest) >= Len(InfinityText)
       /\ SubSeq(p.rest, 1, Len(InfinityText)) = InfinityText
    THEN Infinity(p.sign)
    ELSE FloatDigits(p.sign, DigitPrefix(p.rest), p.rest)

parseFloatStr(s) == FloatSigned(SplitSign(TrimStart(s)))

\* Number.prototype.toString / String.prototype.toString, for the values a
\* setter can be handed.  A decimal below 1e-6 in magnitude prints in
\* exponent form, d.ddde-n; other decimals print as i.f.
Abs(n) == IF n < 0 THEN -n ELSE n
ToStringVal(x) ==
    CASE x.t = "str" -> x.v
      [] x.t = "NaN" -> <<"N", "a", "N">>
      [] x.t = "bool" -> IF x.v THEN <<"t", "r", "u", "e">>
                         ELSE <<"f", "a", "l", "s", "e">>
      [] x.t = "inf" ->
            (IF x.v < 0 THEN <<"-">> ELSE <<>>) \o InfinityText
      [] x.t = "num" ->
            (IF x.v < 0 THEN <<"-">> ELSE <<>>) \o NatToDigits(Abs(x.v))
      [] x.t = "dec" ->
            LET a == Abs(x.m)
                sg == IF x.m < 0 THEN <<"-">> ELSE <<>>
                md == NatToDigits(a)
                fd == NatToDigits(a % Pow10(x.s))
                pad == [i \in 1..(x.s - Len(fd)) |-> "0"]
            IN IF Len(md) - x.s > -6
               THEN sg \o NatToDigits(a \div Pow10(x.s)) \o <<".">>
                       \o pad \o fd
               ELSE sg \o <<Head(md)>>
                       \o (IF Len(md) > 1 THEN <<".">> \o Tail(md) ELSE <<>>)
                       \o <<"e", "-">> \o NatToDigits(x.s - Len(md) + 1)

\* s.split(c) for a one-character separator: always at least one piece
RECURSIVE Split(_, _)
Split(s, c) ==
    IF \E i \in 1..Len(s) : s[i] = c
    THEN LET i == CHOOSE k \in 1..Len(s) :
                      s[k] = c /\ \A j \in 1..(k - 1) : s[j] # c
         IN <<SubSeq(s, 1, i - 1)>> \o Split(SubSeq(s, i + 1, Len(s)), c)
    ELSE <<s>>

\* s.replaceAll(pat, rep): every occurrence, found left to right, none
\* overlapping (pat is not empty)
RECURSIVE ReplaceAll(_, _, _)
ReplaceAll(s, pat, rep) ==
    IF Len(s) < Len(pat) THEN s
    ELSE IF SubSeq(s, 1, Len(pat)) = pat
    THEN rep \o ReplaceAll(SubSeq(s, Len(pat) + 1, Len(s)), pat, rep)
    ELSE <<Head(s)>> \o ReplaceAll(Tail(s), pat, rep)

\* ------------------------------------------------------------------------
\* Class (src/classes/Class.ts): the setters the constructor runs.  Each
\* yields [ok |-> TRUE, val |-> stored value] or [ok |-> FALSE, err |-> e].
\* ------------------------------------------------------------------------
Ok(v) == [ok |-> TRUE, val |-> v]
Throw(e) == [ok |-> FALSE, err |-> e]

OPEN == <<"O", "P", "E", "N">>
CLOSED == <<"C", "L", "O", "S", "E", "D">>

\* the types whose toString() ToStringVal computes
Printable == {"str", "num", "dec", "NaN", "inf", "bool"}

\* set crn(id): parseInt(id.replace(/(\r\n|\n|\r)/gm, "").trim())
Class_crn(id) ==
    IF id.t = "str"
    THEN Ok(parseIntStr(Trim(StripLineBreaks(id.v))))
    ELSE Throw("TypeError")

\* set courseID / title / instructor / times: x ? x.replace(...).trim() : ''
Class_text(x) ==
    IF ~Truthy(x) THEN Ok(Str(<<>>))
    ELSE IF x.t = "str" THEN Ok(Str(Trim(StripLineBreaks(x.v))))
    ELSE Throw("TypeError")

\* set attributes: attributes.map(a => a.replace(...).trim())
Class_attributes(a) ==
    IF a.t = "arr" /\ \A i \in 1..Len(a.v) : a.v[i].t = "str"
    THEN Ok(Arr([i \in 1..Len(a.v) |->
                    Str(Trim(StripLineBreaks(a.v[i].v)))]))
    ELSE Throw("TypeError")

\* set credits: null stays null, anything else goes through toString and
\* parseInt
Class_credits(c) ==
    IF c = null THEN Ok(null)
    ELSE IF c.t \in Printable
    THEN Ok(parseIntStr(Trim(StripLineBreaks(ToStringVal(c)))))
    ELSE Throw("TypeError")

\* set projectedEnrollment / currentEnrollment
Class_enrollment(n) ==
    IF n.t \in Printable
    THEN Ok(parseIntStr(Trim(StripLineBreaks(ToStringVal(n)))))
    ELSE Throw("TypeError")

\* set seatsAvailable: also drops the first asterisk
Class_seatsAvailable(n) ==
    IF n.t \in Printable
    THEN Ok(parseIntStr(Trim(RemoveFirst(StripLineBreaks(ToStringVal(n)),
                                         "*"))))
    ELSE Throw("TypeError")

\* a setter without the check of the two tokens
Class_statusAny(status) ==
    IF status.t \in {"undefined", "null"} THEN Ok(Str(CLOSED))
    ELSE Ok(status)

\* set status: undefined and null become CLOSED; any other value but the
\* two tokens throws
Class_status(status) ==
    IF status.t \in {"undefined", "null"} THEN Ok(Str(CLOSED))
    ELSE IF status # Str(OPEN) /\ status # Str(CLOSED) THEN Throw("Error")
    ELSE Ok(status)

\* the constructor's arguments, undefined past the ones given
Arg(args, i) == IF i \in 1..Len(args) THEN args[i] ELSE undefined

\* new Class(crn, courseID, attributes, title, instructor, credits, times,
\* projectedEnrollment, currentEnrollment, seatsAvailable, status): the
\* eleven setters in that order; the first that throws ends construction
ClassOf(r) ==
    IF \E i \in 1..11 : ~r[i].ok
    THEN Throw(r[CHOOSE i \in 1..11 :
                     ~r[i].ok /\ \A j \in 1..(i - 1) : r[j].ok].err)
    ELSE Ok([ _crn |-> r[1].val,
              _courseID |-> r[2].val,
              _attributes |-> r[3].val,
              _title |-> r[4].val,
              _instructor |-> r[5].val,
              _credits |-> r[6].val,
              _times |-> r[7].val,
              _projectedEnrollment |-> r[8].val,
              _currentEnrollment |-> r[9].val,
              _seatsAvailable |-> r[10].val,
              _status |-> r[11].val ])

NewClass(args) ==
    ClassOf(<< Class_crn(Arg(args, 1)),
               Class_text(Arg(args, 2)),
               Class_attributes(Arg(args, 3)),
               Class_text(Arg(args, 4)),
               Class_text(Arg(args, 5)),
               Class_credits(Arg(args, 6)),
               Class_text(Arg(args, 7)),
               Class_enrollment(Arg(args, 8)),
               Class_enrollment(Arg(args, 9)),
               Class_seatsAvailable(Arg(args, 10)),
               Class_status(Arg(args, 11)) >>)

\* ------------------------------------------------------------------------
\* Scraper (src/unnamed/part_004): the synchronous helpers
\* ------------------------------------------------------------------------
IsPrefix(a, b) == Len(a) <= Len(b) /\ SubSeq(b, 1, Len(a)) = a

\* an array of strings from their characters
StrArr(pieces) == Arr([i \in 1..Len(pieces) |-> Str(pieces[i])])

\* this.classData.push(new Class(...)): made is what the constructor
\* yields, the record or the error it throws
Push(data, made) == IF made.ok THEN Ok(Append(data, made.val)) ELSE made

\* createAndSaveClass without the guard on the length: a missing cell reads
\* as undefined
createAndSaveClassAnyLength(data, classInfo) ==
    IF classInfo.t \notin {"arr", "null"} THEN Throw("ScraperError")
    ELSE IF classInfo.t = "null" THEN Throw("TypeError")
    ELSE IF Len(classInfo.v) < 6 THEN Throw("TypeError")
    ELSE Push(data,
              NewClass(<< classInfo.v[1], classInfo.v[2],
                          StrArr(Split(classInfo.v[3].v, ",")),
                          classInfo.v[4], classInfo.v[5],
                          parseFloatStr(classInfo.v[6].v),
                          Arg(classInfo.v, 7), Arg(classInfo.v, 8),
                          Arg(classInfo.v, 9), Arg(classInfo.v, 10),
                          Arg(classInfo.v, 11) >>))

\* createAndSaveClass(classInfo) on the collection data: the new collection,
\* or the error thrown.  classInfo is what the row loop builds, an array of
\* the cells' textContent.
createAndSaveClass(data, classInfo) ==
    IF classInfo.t \notin {"arr", "null"} THEN Throw("ScraperError")
    ELSE IF classInfo.t = "null" THEN Throw("TypeError")
    ELSE IF Len(classInfo.v) # 11 THEN Throw("ScraperError")
    ELSE Push(data,
              NewClass(<< classInfo.v[1], classInfo.v[2],
                          StrArr(Split(classInfo.v[3].v, ",")),
                          classInfo.v[4], classInfo.v[5],
                          parseFloatStr(classInfo.v[6].v),
                          classInfo.v[7], classInfo.v[8], classInfo.v[9],
                          classInfo.v[10], classInfo.v[11] >>))

\* the row loop of getCourseData: createAndSaveClass for every row of the
\* table in order, stopping at the first that throws.  Yields the
\* collection as the loop leaves it and the error, "" when none.
RECURSIVE RowLoop(_, _)

\* a loop that leaves out a row createAndSaveClass throws for and goes on
\* with the rows after it
RowLoopAfterSkip(data, r, rest) ==
    RowLoop(IF r.ok THEN r.val ELSE data, rest)

\* the loop after one row: r is what createAndSaveClass yielded for it
RowLoopAfter(data, r, rest) ==
    IF r.ok THEN RowLoop(r.val, rest) ELSE [data |-> data, err |-> r.err]

RowLoop(data, table) ==
    IF table = <<>> THEN [data |-> data, err |-> ""]
    ELSE RowLoopAfter(data, createAndSaveClass(data, Arr(Head(table))),
                      Tail(table))

\* JSON.stringify of a stored field: NaN and the infinities print as null
JsonValue(x) ==
    CASE x.t \in {"NaN", "inf", "undefined"} -> null
      [] x.t = "arr" ->
            Arr([i \in 1..Len(x.v) |->
                    IF x.v[i].t \in {"NaN", "inf", "undefined"}
                    THEN null ELSE x.v[i]])
      [] OTHER -> x

\* JSON.stringify(classData, null, 4) followed by JSON.parse: one object per
\* record holding the record's own (underscore) fields, in their order
JsonOfClass(c) ==
    [ t |-> "obj",
      _crn |-> JsonValue(c._crn),
      _courseID |-> JsonValue(c._courseID),
      _attributes |-> JsonValue(c._attributes),
      _title |-> JsonValue(c._title),
      _instructor |-> JsonValue(c._instructor),
      _credits |-> JsonValue(c._credits),
      _times |-> JsonValue(c._times),
      _projectedEnrollment |-> JsonValue(c._projectedEnrollment),
      _currentEnrollment |-> JsonValue(c._currentEnrollment),
      _seatsAvailable |-> JsonValue(c._seatsAvailable),
      _status |-> JsonValue(c._status) ]

JsonOfData(data) == Arr([i \in 1..Len(data) |-> JsonOfClass(data[i])])

\* entry.<field>: undefined on a value that is no object, a TypeError on
\* null and undefined (reported by the caller)
Field(entry, f) == IF entry.t = "obj" THEN entry[f] ELSE undefined

\* the body of loadFromJson's loop for one entry: the record, or the error
LoadJsonEntry(entry) ==
    IF entry.t \in {"null", "undefined"} THEN Throw("TypeError")
    ELSE IF Field(entry, "_crn").t \notin Printable THEN Throw("TypeError")
    ELSE NewClass(<< Str(ToStringVal(Field(entry, "_crn"))),
                     Field(entry, "_courseID"),
                     Field(entry, "_attributes"),
                     Field(entry, "_title"),
                     Field(entry, "_instructor"),
                     Field(entry, "_credits"),
                     Field(entry, "_times"),
                     Field(entry, "_projectedEnrollment"),
                     Field(entry, "_currentEnrollment"),
                     Field(entry, "_seatsAvailable"),
                     IF Truthy(Field(entry, "_status"))
                     THEN Str(OPEN) ELSE Str(CLOSED) >>)

\* loadFromJson's loop over the parsed entries, from the emptied collection
RECURSIVE LoadJsonEntries(_, _)

\* the loop after one entry: r is the record made of it, or the error
LoadJsonAfter(data, r, rest) ==
    IF r.ok THEN LoadJsonEntries(Append(data, r.val), rest)
    ELSE [data |-> data, err |-> r.err]

LoadJsonEntries(data, entries) ==
    IF entries = <<>> THEN [data |-> data, err |-> ""]
    ELSE LoadJsonAfter(data, LoadJsonEntry(Head(entries)), Tail(entries))

\* loadFromJson(filepath) on a file: data is the collection before.  A file
\* is [kind |-> "absent"], [kind |-> "text", v |-> Str(characters)] (not
\* JSON) or [kind |-> "json", v |-> the parsed value].  A parsed value that
\* cannot be iterated (or a string, whose characters have no _crn) throws
\* after the collection has been emptied.
loadFromJson(data, file) ==
    IF file.kind # "json" THEN [data |-> data, err |-> "Error"]
    ELSE IF file.v.t = "arr" THEN LoadJsonEntries(<<>>, file.v.v)
    ELSE IF file.v = Str(<<>>) THEN [data |-> <<>>, err |-> ""]
    ELSE [data |-> <<>>, err |-> "TypeError"]

\* seperated[i] (0-based in the code, 1-based here): undefined past the end
Piece(seperated, i) ==
    IF i \in 1..Len(seperated) THEN Str(seperated[i]) ELSE undefined

\* parseInt(x) of a piece: parseInt(undefined) is NaN
parseIntPiece(x) == IF x.t = "str" THEN parseIntStr(x.v) ELSE NaN

\* new Class(...) of the pieces of one line
ClassOfPieces(seperated) ==
    NewClass(<< Piece(seperated, 1),
                Piece(seperated, 2),
                IF Truthy(Piece(seperated, 3))
                THEN StrArr(Split(seperated[3], "-")) ELSE Arr(<<>>),
                Piece(seperated, 4),
                Piece(seperated, 5),
                parseIntPiece(Piece(seperated, 6)),
                Piece(seperated, 7),
                parseIntPiece(Piece(seperated, 8)),
                parseIntPiece(Piece(seperated, 9)),
                parseIntPiece(Piece(seperated, 10)),
                Piece(seperated, 11) >>)

\* pieces joined by sep
RECURSIVE Join(_, _)
Join(pieces, sep) ==
    IF pieces = <<>> THEN <<>>
    ELSE IF Len(pieces) = 1 THEN pieces[1]
    ELSE pieces[1] \o sep \o Join(Tail(pieces), sep)

\* JSON.stringify of an array of strings (that hold nothing to escape)
JsonText(a) ==
    <<"[">>
    \o Join([i \in 1..Len(a.v) |-> <<"\"">> \o a.v[i].v \o <<"\"">>], <<",">>)
    \o <<"]">>

\* the text ObjectsToCsv writes for a value: nothing for null and
\* undefined, the JSON text for an array, toString() for the others
CsvCast(x) ==
    CASE x.t \in {"null", "undefined"} -> <<>>
      [] x.t = "arr" -> JsonText(x)
      [] OTHER -> ToStringVal(x)

\* a field of a line: in quotes, its quotes doubled, when it holds a comma,
\* a quote or a line break
CsvQuoted(f) ==
    IF \E i \in 1..Len(f) : f[i] \in {",", "\"", "\n", "\r"}
    THEN <<"\"">> \o ReplaceAll(f, <<"\"">>, <<"\"", "\"">>) \o <<"\"">>
    ELSE f

\* Object.keys of a record: its own fields in the order the constructor
\* assigns them
ClassKeys ==
    << "_crn", "_courseID", "_attributes", "_title", "_instructor",
       "_credits", "_times", "_projectedEnrollment", "_currentEnrollment",
       "_seatsAvailable", "_status" >>

\* the characters of a key
KeyText ==
    [ _crn |-> <<"_", "c", "r", "n">>,
      _courseID |-> <<"_", "c", "o", "u", "r", "s", "e", "I", "D">>,
      _attributes |-> <<"_", "a", "t", "t", "r", "i", "b", "u", "t", "e", "s">>,
      _title |-> <<"_", "t", "i", "t", "l", "e">>,
      _instructor |-> <<"_", "i", "n", "s", "t", "r", "u", "c", "t", "o", "r">>,
      _credits |-> <<"_", "c", "r", "e", "d", "i", "t", "s">>,
      _times |-> <<"_", "t", "i", "m", "e", "s">>,
      _projectedEnrollment |->
          <<"_", "p", "r", "o", "j", "e", "c", "t", "e", "d",
            "E", "n", "r", "o", "l", "l", "m", "e", "n", "t">>,
      _currentEnrollment |->
          <<"_", "c", "u", "r", "r", "e", "n", "t",
            "E", "n", "r", "o", "l", "l", "m", "e", "n", "t">>,
      _seatsAvailable |->
          <<"_", "s", "e", "a", "t", "s",
            "A", "v", "a", "i", "l", "a", "b", "l", "e">>,
      _status |-> <<"_", "s", "t", "a", "t", "u", "s">> ]

\* the header line and the line of one record
CsvHeaderLine == Join([i \in 1..11 |-> KeyText[ClassKeys[i]]], <<",">>)
CsvLine(c) ==
    Join([i \in 1..11 |-> CsvQuoted(CsvCast(c[ClassKeys[i]]))], <<",">>)

\* new ObjectsToCsv(this.classData) written by toDisk: nothing for an empty
\* collection, else the header and one line per record, every line ended by
\* a line feed
CsvOfData(data) ==
    IF data = <<>> THEN <<>>
    ELSE Join([i \in 1..(Len(data) + 1) |->
                  IF i = 1 THEN CsvHeaderLine ELSE CsvLine(data[i - 1])],
              <<"\n">>)
         \o <<"\n">>

\* seperated, the pieces loadFromCsv cuts one line into: the replacements of
\* lines 359 to 365, then split(',')
Seperated(line) ==
    Split(RemoveFirst(RemoveFirst(
        ReplaceAll(ReplaceAll(ReplaceAll(ReplaceAll(line,
            <<"\"", "\"", ",", "\"", "\"">>, <<"-">>),
            <<"\"">>, <<>>),
            <<",", " ", " ">>, <<" ">>),
            <<",", " ">>, <<" ">>),
        "["), "]"), ",")

\* the body of loadFromCsv's forEach for one line
LoadCsvLine(line) == ClassOfPieces(Seperated(line))

RECURSIVE LoadCsvLines(_, _)

\* the forEach after one line: r is the record made of it, or the error
LoadCsvAfter(data, r, rest) ==
    IF r.ok THEN LoadCsvLines(Append(data, r.val), rest)
    ELSE [data |-> data, err |-> r.err]

LoadCsvLines(data, lines) ==
    IF lines = <<>> THEN [data |-> data, err |-> ""]
    ELSE LoadCsvAfter(data, LoadCsvLine(Head(lines)), Tail(lines))

\* loadFromCsv(filepath): the text is split on line feeds, the first piece
\* (the header) dropped, and every other piece becomes a record
loadFromCsv(data, file) ==
    IF file.kind = "absent" THEN [data |-> data, err |-> "Error"]
    ELSE LoadCsvLines(<<>>, Tail(Split(file.v.v, "\n")))

\* ------------------------------------------------------------------------
\* The rate limiter and discovery
\* ------------------------------------------------------------------------

\* the copies of the Scraper class src/ holds that have httpRequest: the
\* single file src/scraper.ts and the later one of src/unnamed/part_004
\* (with src/classes); a scraper runs one of them
Bundled == "src/scraper.ts"
Modular == "src/unnamed/part_004"
Builds == {Bundled, Modular}

\* typeof x
typeof(x) ==
    CASE x.t \in {"arr", "null", "obj"} -> "object"
      [] x.t \in {"num", "dec", "NaN", "inf"} -> "number"
      [] x.t = "str" -> "string"
      [] x.t = "bool" -> "boolean"
      [] OTHER -> "undefined"

\* the options of a GET that names the scraper's identity
Get(userAgent) ==
    [t |-> "obj", method |-> "GET", headers |-> [UserAgent |-> userAgent]]

\* httpRequest(url, options) up to the fetch: the options the request is
\* sent with, or the error thrown before it.  src/scraper.ts throws when
\* typeof options is not 'object'; the later copy only when options is
\* truthy as well.
httpRequest(copy, userAgent, options) ==
    IF (copy = Modular => Truthy(options)) /\ typeof(options) # "object"
    THEN Throw("ScraperError")
    ELSE Ok(IF ~Truthy(options) THEN Get(userAgent) ELSE options)

\* a limiter that waits and leaves _lastRequest as it was
_logAndExecuteRateLimitStale(rl, t) ==
    LET diff == t - rl._interval
        wait == rl._interval - diff
    IN [ rl |-> rl, now |-> IF diff < rl._interval THEN t + wait ELSE t ]

\* _logAndExecuteRateLimit() at clock reading t: the limiter as it is left
\* and the clock when the call returns.  The elapsed time is computed from
\* the interval (this.rateLimit), as the code does.
_logAndExecuteRateLimit(rl, t) ==
    LET diff == t - rl._interval
        wait == rl._interval - diff
        after == IF diff < rl._interval THEN t + wait ELSE t
    IN [ rl |-> [rl EXCEPT !._lastRequest = after], now |-> after ]

\* a discovery page: the values of the options of #term_code and of
\* #term_subj, null for a dropdown the page does not hold
Page(terms, subjects) == [terms |-> terms, subjects |-> subjects]

\* a discovery that takes the last option of the term dropdown as the latest
\* term and keeps the first option of the subject dropdown
ParseDiscoveryWhole(cd, page) ==
    IF page.terms.t # "arr" \/ page.subjects.t # "arr"
       \/ Len(page.terms.v) = 0
    THEN [cd |-> cd, err |-> "TypeError"]
    ELSE [ cd |-> [ terms |-> [ latest |-> page.terms.v[Len(page.terms.v)],
                               all |-> page.terms ],
                    subjects |-> page.subjects ],
           err |-> "" ]

\* the part of getTermsAndSubjects after the response: the assignments to
\* courselistData in the code's order, ended by the first TypeError
ParseDiscovery(cd, page) ==
    IF page.terms.t # "arr" THEN [cd |-> cd, err |-> "TypeError"]
    ELSE
      LET n == Len(page.terms.v)
          cd1 == [cd EXCEPT !.terms.all = page.terms]
      IN IF n - 1 \notin 1..n THEN [cd |-> cd1, err |-> "TypeError"]
         ELSE
           LET cd2 == [cd1 EXCEPT !.terms.latest = page.terms.v[n - 1]]
           IN IF page.subjects.t # "arr"
              THEN [cd |-> cd2, err |-> "TypeError"]
              ELSE [ cd |-> [cd2 EXCEPT !.subjects =
                                 Arr(SubSeq(page.subjects.v, 2,
                                            Len(page.subjects.v)))],
                     err |-> "" ]

\* subjects.includes(subjectCode)
Includes(subjects, subjectCode) ==
    \E i \in 1..Len(subjects.v) : subjects.v[i] = subjectCode

\* ------------------------------------------------------------------------
\* The environment: what the course list can answer, and what a caller
\* passes
\* ------------------------------------------------------------------------
BIOL == <<"B", "I", "O", "L">>
CHEM == <<"C", "H", "E", "M">>
PHYS == <<"P", "H", "Y", "S">>
Placeholder == Str(<<"0">>)
Fall == Str(<<"1", "0">>)
Spring == Str(<<"2", "0">>)

\* the listing page as it is, a shorter one, and pages with an empty option
\* value or a missing dropdown
PageFull ==
    Page(Arr(<<Fall, Spring, Placeholder>>),
         Arr(<<Placeholder, Str(BIOL), Str(CHEM)>>))
PageShort ==
    Page(Arr(<<Fall, Placeholder>>), Arr(<<Placeholder, Str(CHEM)>>))
PageEmptyCode ==
    Page(Arr(<<Fall, Spring, Placeholder>>),
         Arr(<<Placeholder, Str(BIOL), Str(<<>>)>>))
PageEmptyTerm ==
    Page(Arr(<<Str(<<>>), Placeholder>>), Arr(<<Placeholder, Str(BIOL)>>))
PageOneTerm == Page(Arr(<<Placeholder>>), Arr(<<Placeholder, Str(BIOL)>>))
PageNoTerms == Page(null, Arr(<<Placeholder, Str(BIOL)>>))
PageNoSubjects == Page(Arr(<<Fall, Spring, Placeholder>>), null)
Pages ==
    { PageFull, PageShort, PageEmptyCode, PageEmptyTerm, PageOneTerm,
      PageNoTerms, PageNoSubjects }

\* rows of a result table: the textContent of the cells of one <tr>
RowOpen ==
    << <<"1", "2", "\n">>, <<" ", "B", "1", " ">>, <<"G", ",", "L">>,
       <<"T">>, <<"S">>, <<"3">>, <<"M">>, <<"3", "0">>, <<"2", "5">>,
       <<"5", "*", "\n">>, OPEN >>
RowClosed ==
    << <<"1", "3">>, <<"C", "1">>, <<"G">>, <<"U">>, <<>>, <<"4">>,
       <<"W">>, <<"1", "0">>, <<"1", "2">>, <<"-", "2">>, CLOSED >>
\* a variable-credit section: the credits cell holds no number
RowVariable ==
    << <<"1", "4">>, <<"D", "1">>, <<>>, <<"V">>, <<"S">>, <<>>,
       <<"F">>, <<"8">>, <<"0">>, <<"8">>, OPEN >>
\* a section whose CRN, enrollment and seats cells hold no number
RowNotNumeric ==
    << <<"T", "B", "A">>, <<"E", "1">>, <<"G">>, <<"T">>, <<"S">>, <<"3">>,
       <<"M">>, <<>>, <<"-">>, <<"*", "\n">>, OPEN >>
RowShort == SubSeq(RowOpen, 1, 10)
RowLong == RowOpen \o << <<"x">> >>
RowWithStatus(s) == [RowOpen EXCEPT ![11] = s]
OtherStatuses ==
    { <<"P", "E", "N", "D", "I", "N", "G">>, <<>>, <<"o", "p", "e", "n">>,
      <<" ", "O", "P", "E", "N">>, <<"O", "P", "E", "N", "\n">>,
      <<"C", "l", "o", "s", "e", "d">> }

TextRows(rows) == [i \in 1..Len(rows) |->
                      [j \in 1..Len(rows[i]) |-> Str(rows[i][j])]]

\* tables a search-results page can hold
Tables ==
    { TextRows(tb) : tb \in
        { <<>>, <<RowOpen>>, <<RowClosed, RowVariable>>,
          <<RowOpen, RowShort, RowClosed>>, <<RowLong>>,
          <<RowNotNumeric>> }
        \cup { <<RowOpen, RowWithStatus(s)>> : s \in OtherStatuses } }

\* what a caller passes to getCourseData
SubjectArgs == { undefined, Str(BIOL), Str(PHYS) }
TermArgs == { undefined, Num(30) }

\* the identity the README constructs the scraper with
Abcdef == <<"a", "b", "c", "d", "e", "f", "@", "w", "m", ".", "e", "d", "u">>

\* what a caller passes to the constructor as rateLimit: nothing, 0, or the
\* recommended 500
RateLimitArgs == { undefined, Num(0), Num(500) }

\* Date.now() when the scraper is constructed, in milliseconds
Epoch == 1000000

\* bounds of the model
MaxCalls == 2
MaxDepth == 3
MaxRecords == 3
MaxElapsed == 1
MaxSuspended == 1
MaxPad == 2

\* files a caller can name besides the one saveToJson writes
NoFile == [kind |-> "absent"]
NotJson == [kind |-> "text", v |-> Str(<<"{">>)]
\* a structured file in the shape IJsonClass declares (boolean _status)
DeclaredEntry(crn, status) ==
    [ t |-> "obj", _crn |-> Num(crn), _courseID |-> Str(<<"B", "1">>),
      _attributes |-> Arr(<<Str(<<"G">>)>>), _title |-> Str(<<"T">>),
      _instructor |-> Str(<<"S">>), _credits |-> null,
      _times |-> Str(<<"M">>), _projectedEnrollment |-> Num(30),
      _currentEnrollment |-> Num(25), _seatsAvailable |-> Num(5),
      _status |-> Bool(status) ]
DeclaredJson ==
    [ kind |-> "json",
      v |-> Arr(<<DeclaredEntry(21, TRUE), DeclaredEntry(22, FALSE)>>) ]
NotAnArray == [kind |-> "json", v |-> Num(5)]
ForeignJsonFiles == { NoFile, NotJson, DeclaredJson, NotAnArray }

\* tabular files: a header line and one data row, with and without the
\* final line feed
CsvHeader == <<"_", "c", "r", "n", ",", "_", "s">>
CsvRow ==
    << "1", "2", ",", "B", "1", ",", "\"", "[", "\"", "\"", "G", "\"", "\"",
       ",", "\"", "\"", "L", "\"", "\"", "]", "\"", ",", "T", ",", "S", ",",
       "3", ",", "M", ",", "3", "0", ",", "2", "5", ",", "5", ",",
       "O", "P", "E", "N" >>
CsvTerminated ==
    [ kind |-> "text",
      v |-> Str(CsvHeader \o <<"\n">> \o CsvRow \o <<"\n">>) ]
CsvUnterminated ==
    [kind |-> "text", v |-> Str(CsvHeader \o <<"\n">> \o CsvRow)]
CsvFiles == { NoFile, CsvTerminated, CsvUnterminated }

\* ------------------------------------------------------------------------
\* State
\* ------------------------------------------------------------------------
VARIABLES
    _userAgent,      \* Scraper._userAgent
    build,           \* the copy of httpRequest the scraper is built from
    _rateLimit,      \* Scraper._rateLimit: [_interval, _lastRequest]
    courselistData,  \* Scraper.courselistData: [terms: [latest, all], subjects]
    classData,       \* Scraper.classData: the sequence of records
    now,             \* Date.now()
    stack,           \* the calls of the running asynchronous operation,
                     \* outermost first; empty when the caller is not
                     \* awaiting one
    jsonFile,        \* the file saveToJson writes
    csvFile,         \* the file saveToCsv writes
    silent,          \* logger.silent, of the module's one logger
    pending,         \* the calls of an operation the caller started and did
                     \* not await, suspended at an await; empty when none
    calls,           \* operations started so far
    \* history, read by the properties only
    result,          \* how the last operation ended
    entry,           \* the scraper as the running (or last) call found it
    trace,           \* rate-limiter awaits, fetches and completed subjects
                     \* of that call, in order
    committed,       \* the collection when the last subject completed
    fault,           \* where that call first threw: the subject the outer
                     \* loop was at (0 outside it), the error, and the
                     \* length of trace then
    lastResp,        \* the last result table and the collection before it,
                     \* or the last listing page and the error parsing it
    prevRequest,     \* _lastRequest before the last rate-limiter await
    saved,           \* the collection jsonFile was written from
    savedCsv         \* the collection csvFile was written from

vars ==
    << _userAgent, build, _rateLimit, courselistData, classData, now, stack,
       jsonFile, csvFile, silent, pending, calls, result, entry, trace,
       committed, fault, lastResp, prevRequest, saved, savedCsv >>

\* what the caller configures, and the operation left suspended
settings == << _userAgent, silent, build >>
written == << csvFile, savedCsv >>

state == << _rateLimit, courselistData, classData, now, jsonFile >>
history ==
    << result, entry, trace, committed, fault, lastResp, prevRequest, saved >>

Frame(fn, pc, subjectCode, term) ==
    [fn |-> fn, pc |-> pc, subjectCode |-> subjectCode, term |-> term, i |-> 0]

Top == stack[Len(stack)]
SetTop(f) == [stack EXCEPT ![Len(stack)] = f]

NoFault == [at |-> -1, err |-> "", events |-> 0, transport |-> FALSE]
NoResp == [has |-> FALSE, table |-> <<>>, before |-> <<>>]

\* constructor(userAgent, rateLimit): the interval is 500 unless a truthy
\* rateLimit is given
DefaultInterval == 500
Constructed(rateLimit) ==
    [ _interval |-> IF Truthy(rateLimit) THEN rateLimit.v
                    ELSE DefaultInterval,
      _lastRequest |-> 0 ]

Init ==
    /\ _userAgent = Str(Abcdef)
    /\ build \in Builds
    /\ \E rateLimit \in RateLimitArgs : _rateLimit = Constructed(rateLimit)
    /\ silent = FALSE
    /\ pending = <<>>
    /\ courselistData =
           [terms |-> [latest |-> null, all |-> null], subjects |-> null]
    /\ classData = <<>>
    /\ now = Epoch
    /\ stack = <<>>
    /\ jsonFile = NoFile
    /\ calls = 0
    /\ result = [op |-> "new", err |-> "", file |-> NoFile]
    /\ entry = [ op |-> "new", subjectCode |-> undefined, term |-> undefined,
                 classData |-> <<>>, courselistData |-> courselistData,
                 _lastRequest |-> 0 ]
    /\ trace = <<>>
    /\ committed = <<>>
    /\ fault = NoFault
    /\ lastResp = NoResp
    /\ prevRequest = 0
    /\ saved = [has |-> FALSE, data |-> <<>>]
    /\ csvFile = NoFile
    /\ savedCsv = [has |-> FALSE, data |-> <<>>]

\* ------------------------------------------------------------------------
\* Calls, returns and exceptions
\* ------------------------------------------------------------------------

\* the history a new operation starts from
Begin(op, subjectCode, term) ==
    /\ entry' = [ op |-> op, subjectCode |-> subjectCode, term |-> term,
                  classData |-> classData, courselistData |-> courselistData,
                  _lastRequest |-> _rateLimit._lastRequest ]
    /\ trace' = <<>>
    /\ committed' = classData
    /\ fault' = NoFault
    /\ lastResp' = NoResp

\* a loop that would catch the exception of one subject and go on: only
\* the call that threw ends
UnwindSkip(st) == SubSeq(st, 1, Len(st) - 1)

\* the calls left running when one of them throws: neither
\* getTermsAndSubjects nor getCourseData catches anything, so the exception
\* leaves every call and reaches the caller
Unwind(st) == <<>>

\* an await of the running call rejects with e, or the call throws e;
\* transport tells that it is the request that failed
Reject(e, transport) ==
    /\ stack' = Unwind(stack)
    /\ fault' = IF fault.at = -1
                THEN [ at |-> stack[1].i, err |-> e, events |-> Len(trace),
                       transport |-> transport ]
                ELSE fault
    /\ result' = IF stack' = <<>> THEN [result EXCEPT !.err = e] ELSE result

\* the running call throws e
Raise(e) == Reject(e, FALSE)

\* the running call returns to the call that awaits it, or to the caller
Return ==
    /\ stack' = SubSeq(stack, 1, Len(stack) - 1)
    /\ fault' = fault
    /\ result' = IF Len(stack) = 1 THEN [result EXCEPT !.err = ""]
                 ELSE result

Event(e, f) ==
    [ e |-> e, fn |-> f.fn, subjectCode |-> f.subjectCode,
      userAgent |-> _userAgent,
      term |-> IF f.fn = "getCourseData"
               THEN (IF Truthy(f.term) THEN f.term
                     ELSE courselistData.terms.latest)
               ELSE undefined ]

\* the event of a request sent with options
Sent(ev, options) ==
    [ e |-> ev.e, fn |-> ev.fn, subjectCode |-> ev.subjectCode,
      term |-> ev.term, method |-> options.method,
      userAgent |-> options.headers.UserAgent ]

\* ------------------------------------------------------------------------
\* Operations on the network
\* ------------------------------------------------------------------------

\* time passes while a response is awaited: any amount the bound allows
Elapse == \E t \in now..(Epoch + MaxElapsed) : now' = t

\* the caller awaits scraper.getTermsAndSubjects()
CallGetTermsAndSubjects ==
    /\ stack = <<>>
    /\ calls < MaxCalls
    /\ calls' = calls + 1
    /\ stack' = <<Frame("getTermsAndSubjects", "rateLimit",
                        undefined, undefined)>>
    /\ Begin("getTermsAndSubjects", undefined, undefined)
    /\ result' = [op |-> "getTermsAndSubjects", err |-> "pending",
                  file |-> NoFile]
    /\ UNCHANGED <<state, prevRequest, saved,
                   settings, pending, written>>

\* the caller awaits scraper.getCourseData(subjectCode, term)
CallGetCourseData ==
    /\ stack = <<>>
    /\ calls < MaxCalls
    /\ calls' = calls + 1
    /\ \E subjectCode \in SubjectArgs, term \in TermArgs :
          /\ stack' = <<Frame("getCourseData", "start", subjectCode, term)>>
          /\ Begin("getCourseData", subjectCode, term)
    /\ result' = [op |-> "getCourseData", err |-> "pending", file |-> NoFile]
    /\ UNCHANGED <<state, prevRequest, saved,
                   settings, pending, written>>

\* getCourseData, line 204: discover first when neither a term nor a
\* subject list is held
Start ==
    /\ stack # <<>>
    /\ Top.fn = "getCourseData"
    /\ Top.pc = "start"
    /\ IF ~Truthy(courselistData.terms.latest)
          /\ ~Truthy(courselistData.subjects)
       THEN /\ Len(stack) < MaxDepth
            /\ stack' = Append(SetTop([Top EXCEPT !.pc = "check"]),
                               Frame("getTermsAndSubjects", "rateLimit",
                                     undefined, undefined))
       ELSE stack' = SetTop([Top EXCEPT !.pc = "dispatch"])
    /\ UNCHANGED <<state, calls, history,
                   settings, pending, written>>

\* getCourseData, lines 209 to 211: after the implicit discovery
Check ==
    /\ stack # <<>>
    /\ Top.fn = "getCourseData"
    /\ Top.pc = "check"
    /\ IF Truthy(courselistData.terms.latest)
          /\ Truthy(courselistData.subjects)
       THEN /\ stack' = SetTop([Top EXCEPT !.pc = "dispatch"])
            /\ UNCHANGED <<result, fault>>
       ELSE Raise("ScraperError")
    /\ UNCHANGED <<state, calls, entry, trace, committed, lastResp,
                   prevRequest, saved,
                   settings, pending, written>>

\* getCourseData without the membership check of line 217
DispatchedUnchecked(subjectCode, subjects) ==
    IF subjects.t # "arr" THEN [go |-> "throw", err |-> "TypeError"]
    ELSE IF Truthy(subjectCode) THEN [go |-> "rateLimit", err |-> ""]
    ELSE [go |-> "loop", err |-> ""]

\* where getCourseData goes at line 215: "throw" with the error, or the
\* next step of the call
Dispatched(subjectCode, subjects) ==
    IF Truthy(subjectCode)
    THEN IF subjects.t # "arr" THEN [go |-> "throw", err |-> "TypeError"]
         ELSE IF ~Includes(subjects, subjectCode)
         THEN [go |-> "throw", err |-> "ScraperError"]
         ELSE [go |-> "rateLimit", err |-> ""]
    ELSE IF subjects.t # "arr" THEN [go |-> "throw", err |-> "TypeError"]
         ELSE [go |-> "loop", err |-> ""]

\* getCourseData, lines 215 to 219 and 250 to 251
Dispatch ==
    /\ stack # <<>>
    /\ Top.fn = "getCourseData"
    /\ Top.pc = "dispatch"
    /\ LET d == Dispatched(Top.subjectCode, courselistData.subjects)
       IN IF d.go = "throw" THEN Raise(d.err)
          ELSE /\ stack' = SetTop([Top EXCEPT !.pc = d.go])
               /\ UNCHANGED <<result, fault>>
    /\ UNCHANGED <<state, calls, entry, trace, committed, lastResp,
                   prevRequest, saved,
                   settings, pending, written>>

\* the loop of lines 251 to 253: await getCourseData(subject, term) for the
\* next subject of the list, or return after the last
Loop ==
    /\ stack # <<>>
    /\ Top.fn = "getCourseData"
    /\ Top.pc = "loop"
    /\ IF Top.i < Len(courselistData.subjects.v)
       THEN /\ Len(stack) < MaxDepth
            /\ stack' =
                 Append(SetTop([Top EXCEPT !.i = Top.i + 1]),
                        Frame("getCourseData", "start",
                              courselistData.subjects.v[Top.i + 1],
                              IF Truthy(Top.term) THEN Top.term
                              ELSE courselistData.terms.latest))
            /\ UNCHANGED <<result, fault>>
       ELSE Return
    /\ UNCHANGED <<state, calls, entry, trace, committed, lastResp,
                   prevRequest, saved,
                   settings, pending, written>>

\* await this._logAndExecuteRateLimit(), in either operation
RateLimit ==
    /\ stack # <<>>
    /\ Top.pc = "rateLimit"
    /\ LET r == _logAndExecuteRateLimit(_rateLimit, now)
       IN /\ _rateLimit' = r.rl
          /\ now' = r.now
    /\ prevRequest' = _rateLimit._lastRequest
    /\ trace' = Append(trace, Event("await", Top))
    /\ stack' = SetTop([Top EXCEPT !.pc = "request"])
    /\ UNCHANGED <<courselistData, classData, jsonFile, calls, result, entry,
                   committed, fault, lastResp, saved,
                   settings, pending, written>>

\* the GET is sent: httpRequest(url) in getTermsAndSubjects, fetch(url, ...)
\* in getCourseData
Request ==
    /\ stack # <<>>
    /\ Top.pc = "request"
    /\ LET r == IF Top.fn = "getTermsAndSubjects"
                THEN httpRequest(build, _userAgent, undefined)
                ELSE Ok(Get(_userAgent))
       IN IF r.ok
          THEN /\ trace' = Append(trace, Sent(Event("fetch", Top), r.val))
               /\ stack' = SetTop([Top EXCEPT !.pc = "response"])
               /\ UNCHANGED <<result, fault>>
          ELSE /\ Raise(r.err)
               /\ UNCHANGED trace
    /\ UNCHANGED <<state, calls, entry, committed, lastResp,
                   prevRequest, saved,
                   settings, pending, written>>

\* the discovery request fails: httpRequest wraps the error
DiscoveryFails ==
    /\ stack # <<>>
    /\ Top.fn = "getTermsAndSubjects"
    /\ Top.pc = "response"
    /\ Elapse
    /\ Reject("ScraperError", TRUE)
    /\ UNCHANGED <<_rateLimit, courselistData, classData, jsonFile, calls,
                   entry, trace, committed, lastResp, prevRequest, saved,
                   settings, pending, written>>

\* the listing page arrives and is parsed
DiscoveryResponds ==
    /\ stack # <<>>
    /\ Top.fn = "getTermsAndSubjects"
    /\ Top.pc = "response"
    /\ Elapse
    /\ \E page \in Pages :
          LET r == ParseDiscovery(courselistData, page)
          IN /\ courselistData' = r.cd
             /\ lastResp' = [ has |-> FALSE, table |-> <<>>, before |-> <<>>,
                              page |-> page, err |-> r.err ]
             /\ IF r.err # "" THEN Raise(r.err) ELSE Return
    /\ UNCHANGED <<_rateLimit, classData, jsonFile, calls, entry, trace,
                   committed, prevRequest, saved,
                   settings, pending, written>>

\* the search request fails: fetch rejects and nothing wraps the error
SubjectFails ==
    /\ stack # <<>>
    /\ Top.fn = "getCourseData"
    /\ Top.pc = "response"
    /\ Elapse
    /\ Reject("FetchError", TRUE)
    /\ UNCHANGED <<_rateLimit, courselistData, classData, jsonFile, calls,
                   entry, trace, committed, lastResp, prevRequest, saved,
                   settings, pending, written>>

\* the search-results page arrives without a <tbody>
SubjectRespondsNoTable ==
    /\ stack # <<>>
    /\ Top.fn = "getCourseData"
    /\ Top.pc = "response"
    /\ Elapse
    /\ Raise("TypeError")
    /\ UNCHANGED <<_rateLimit, courselistData, classData, jsonFile, calls,
                   entry, trace, committed, lastResp, prevRequest, saved,
                   settings, pending, written>>

\* the search-results page arrives and its rows are normalized
SubjectResponds ==
    /\ stack # <<>>
    /\ Top.fn = "getCourseData"
    /\ Top.pc = "response"
    /\ Elapse
    /\ \E table \in Tables :
          /\ Len(classData) + Len(table) <= MaxRecords
          /\ LET r == RowLoop(classData, table)
             IN /\ classData' = r.data
                /\ lastResp' = [ has |-> TRUE, table |-> table,
                                 before |-> classData ]
                /\ IF r.err # ""
                   THEN /\ Raise(r.err)
                        /\ UNCHANGED <<trace, committed>>
                   ELSE /\ Return
                        /\ trace' = Append(trace, Event("done", Top))
                        /\ committed' = r.data
    /\ UNCHANGED <<_rateLimit, courselistData, jsonFile, calls, entry,
                   prevRequest, saved,
                   settings, pending, written>>

\* ------------------------------------------------------------------------
\* Persistence
\* ------------------------------------------------------------------------

\* saveToJson(saveLocation)
SaveToJson ==
    /\ stack = <<>>
    /\ jsonFile' = [kind |-> "json", v |-> JsonOfData(classData)]
    /\ saved' = [has |-> TRUE, data |-> classData]
    /\ Begin("saveToJson", undefined, undefined)
    /\ result' = [op |-> "saveToJson", err |-> "", file |-> jsonFile']
    /\ UNCHANGED <<_rateLimit, courselistData, classData, now, stack, calls,
                   prevRequest,
                   settings, pending, written>>

\* loadFromJson(filepath), of the file saveToJson wrote or of another
LoadFromJson ==
    /\ stack = <<>>
    /\ \E file \in {jsonFile} \cup ForeignJsonFiles :
          LET r == loadFromJson(classData, file)
          IN /\ classData' = r.data
             /\ result' = [op |-> "loadFromJson", err |-> r.err,
                           file |-> file]
    /\ Begin("loadFromJson", undefined, undefined)
    /\ UNCHANGED <<_rateLimit, courselistData, now, stack, calls, jsonFile,
                   prevRequest, saved,
                   settings, pending, written>>

\* saveToCsv(saveLocation), awaited (the bound is on the records written)
SaveToCsv ==
    /\ stack = <<>>
    /\ Len(classData) <= MaxRecords
    /\ csvFile' = [kind |-> "text", v |-> Str(CsvOfData(classData))]
    /\ savedCsv' = [has |-> TRUE, data |-> classData]
    /\ Begin("saveToCsv", undefined, undefined)
    /\ result' = [op |-> "saveToCsv", err |-> "", file |-> csvFile']
    /\ UNCHANGED <<state, stack, calls, prevRequest, saved, settings,
                   pending>>

\* loadFromCsv(filepath), of the file saveToCsv wrote or of another
LoadFromCsv ==
    /\ stack = <<>>
    /\ \E file \in {csvFile} \cup CsvFiles :
          LET r == loadFromCsv(classData, file)
          IN /\ classData' = r.data
             /\ result' = [op |-> "loadFromCsv", err |-> r.err,
                           file |-> file]
    /\ Begin("loadFromCsv", undefined, undefined)
    /\ UNCHANGED <<_rateLimit, courselistData, now, stack, calls, jsonFile,
                   prevRequest, saved,
                   settings, pending, written>>

\* the operations on the network
Next ==
    \/ CallGetTermsAndSubjects
    \/ CallGetCourseData
    \/ Start
    \/ Check
    \/ Dispatch
    \/ Loop
    \/ RateLimit
    \/ Request
    \/ DiscoveryFails
    \/ DiscoveryResponds
    \/ SubjectFails
    \/ SubjectRespondsNoTable
    \/ SubjectResponds

Spec == Init /\ [][Next]_vars

\* ------------------------------------------------------------------------
\* Persistence on its own: the scraper holds a collection that earlier
\* fetches left, and the caller saves and loads
\* ------------------------------------------------------------------------

\* the records the rows above normalize to
SampleRecords ==
    { createAndSaveClass(<<>>, Arr(TextRows(<<row>>)[1])).val[1] :
        row \in {RowOpen, RowClosed, RowVariable} }

\* every collection of at most MaxRecords of them
Collections == UNION { [1..n -> SampleRecords] : n \in 0..MaxRecords }

InitPersist ==
    /\ _userAgent = Str(Abcdef)
    /\ build = Modular
    /\ \E rateLimit \in RateLimitArgs : _rateLimit = Constructed(rateLimit)
    /\ silent = FALSE
    /\ pending = <<>>
    /\ courselistData =
           [terms |-> [latest |-> null, all |-> null], subjects |-> null]
    /\ classData \in Collections
    /\ now = Epoch
    /\ stack = <<>>
    /\ jsonFile = NoFile
    /\ calls = 0
    /\ result = [op |-> "new", err |-> "", file |-> NoFile]
    /\ entry = [ op |-> "new", subjectCode |-> undefined, term |-> undefined,
                 classData |-> classData, courselistData |-> courselistData,
                 _lastRequest |-> 0 ]
    /\ trace = <<>>
    /\ committed = classData
    /\ fault = NoFault
    /\ lastResp = NoResp
    /\ prevRequest = 0
    /\ saved = [has |-> FALSE, data |-> <<>>]
    /\ csvFile = NoFile
    /\ savedCsv = [has |-> FALSE, data |-> <<>>]

NextPersist ==
    \/ SaveToJson
    \/ LoadFromJson
    \/ LoadFromCsv

SpecPersist == InitPersist /\ [][NextPersist]_vars

\* the tabular file on its own: the caller saves with saveToCsv and loads
NextCsv ==
    \/ SaveToCsv
    \/ LoadFromCsv

SpecCsv == InitPersist /\ [][NextCsv]_vars

\* ------------------------------------------------------------------------
\* Configuration: the constructor and the setters userAgent, rateLimit and
\* logging
\* ------------------------------------------------------------------------
Lower ==
    { "a", "b", "c", "d", "e", "f", "g", "h", "i", "j", "k", "l", "m", "n",
      "o", "p", "q", "r", "s", "t", "u", "v", "w", "x", "y", "z" }
Upper ==
    { "A", "B", "C", "D", "E", "F", "G", "H", "I", "J", "K", "L", "M", "N",
      "O", "P", "Q", "R", "S", "T", "U", "V", "W", "X", "Y", "Z" }
Letters == Lower \cup Upper

\* the classes [a-zA-Z0-9_.+-] and [a-zA-Z0-9-] of the pattern
DigitChars == { Digits[i] : i \in 1..10 }
LocalChars == Letters \cup DigitChars \cup {"_", ".", "+", "-"}
LabelChars == Letters \cup DigitChars \cup {"-"}

\* what . does not match
LineTerminators == {"\n", "\r"}

AllIn(s, class) == \A i \in 1..Len(s) : s[i] \in class

WmEdu == <<"w", "m", ".", "e", "d", "u">>
Email == <<"e", "m", "a", "i", "l">>

\* x matches [class]+\.
LabelDot(x, class) ==
    /\ Len(x) >= 2
    /\ x[Len(x)] = "."
    /\ AllIn(SubSeq(x, 1, Len(x) - 1), class)

\* p matches (?:(?:[a-zA-Z0-9-]+\.)?[a-zA-Z]+\.)?
MatchesSubdomains(p) ==
    \/ p = <<>>
    \/ \E j \in 0..Len(p) :
          /\ j = 0 \/ LabelDot(SubSeq(p, 1, j), LabelChars)
          /\ LabelDot(SubSeq(p, j + 1, Len(p)), Letters)

\* x matches (wm|email.wm)\.edu, the dot after email being any character
MatchesInstitution(x) ==
    \/ x = WmEdu
    \/ /\ Len(x) = 12
       /\ SubSeq(x, 1, 5) = Email
       /\ x[6] \notin LineTerminators
       /\ SubSeq(x, 7, 12) = WmEdu

\* d matches what the pattern has after the @, up to the end of the input
MatchesDomain(d) ==
    \E i \in 0..Len(d) :
        /\ MatchesSubdomains(SubSeq(d, 1, i))
        /\ MatchesInstitution(SubSeq(d, i + 1, Len(d)))

\* /^[a-zA-Z0-9_.+-]+@(?:(?:[a-zA-Z0-9-]+\.)?[a-zA-Z]+\.)?(wm|email.wm)\.edu$/g
\* .test(userAgent), on the characters of userAgent
UserAgentTest(s) ==
    \E a \in 2..Len(s) :
        /\ s[a] = "@"
        /\ AllIn(SubSeq(s, 1, a - 1), LocalChars)
        /\ MatchesDomain(SubSeq(s, a + 1, Len(s)))

\* the interval below which the rateLimit setter warns
WarnBelow == 500

\* a setter that never warns
WarnsNever(ms) == FALSE

\* logger.warn(...) in the rateLimit setter: whether it is called for ms
Warns(ms) == ms.v < WarnBelow

\* whether a message given to the logger reaches the console
Shows(quiet) == ~quiet

\* identities a caller may pass
At(local, domain) == Str(local \o <<"@">> \o domain)
UserAgentArgs ==
    { Str(Abcdef),
      At(<<"a">>, Email \o <<".">> \o WmEdu),
      At(<<"a">>, <<"c", "s", ".">> \o WmEdu),
      At(<<"a">>, <<"x", "1", ".", "c", "s", ".">> \o WmEdu),
      At(<<"a">>, <<"c", "s", "1", ".">> \o WmEdu),
      At(<<"a">>, <<"a", ".", "b", ".", "c", ".">> \o WmEdu),
      At(<<"a">>, Email \o <<"x">> \o WmEdu),
      At(<<"a">>, <<"e", "v", "i", "l">> \o WmEdu),
      At(<<"a">>, <<"g", "m", "a", "i", "l", ".", "c", "o", "m">>),
      At(<<>>, WmEdu),
      At(<<"a", " ", "b">>, WmEdu),
      Str(WmEdu) }

\* intervals a caller may pass, to the constructor or to the setter
IntervalArgs == { Num(0), Num(1), Num(499), Num(500), Num(1000) }

\* what a caller may assign to logging
LoggingArgs == { Bool(TRUE), Bool(FALSE), Num(0), undefined }

NoData == [terms |-> [latest |-> null, all |-> null], subjects |-> null]

\* new Scraper(userAgent, rateLimit) in place of the scraper the caller
\* holds: the userAgent setter, then the rateLimit setter when rateLimit is
\* truthy.  When the constructor throws the caller keeps the scraper it had.
New ==
    /\ stack = <<>>
    /\ \E userAgent \in UserAgentArgs,
          rateLimit \in IntervalArgs \cup {undefined} :
          IF ~UserAgentTest(userAgent.v)
          THEN /\ result' = [ op |-> "new", err |-> "ScraperError",
                              file |-> NoFile, userAgent |-> userAgent,
                              rateLimit |-> rateLimit, warned |-> FALSE,
                              shown |-> FALSE ]
               /\ UNCHANGED <<_userAgent, _rateLimit, courselistData,
                              classData>>
          ELSE /\ _userAgent' = userAgent
               /\ _rateLimit' = Constructed(rateLimit)
               /\ courselistData' = NoData
               /\ classData' = <<>>
               /\ result' =
                    [ op |-> "new", err |-> "", file |-> NoFile,
                      userAgent |-> userAgent, rateLimit |-> rateLimit,
                      warned |-> Truthy(rateLimit) /\ Warns(rateLimit),
                      shown |-> /\ Truthy(rateLimit)
                                /\ Warns(rateLimit)
                                /\ Shows(silent) ]
    /\ Begin("new", undefined, undefined)
    /\ UNCHANGED <<now, stack, jsonFile, silent, build, pending, calls,
                   prevRequest, saved, written>>

\* scraper.userAgent = userAgent
SetUserAgent ==
    /\ stack = <<>>
    /\ \E userAgent \in UserAgentArgs :
          /\ _userAgent' = IF UserAgentTest(userAgent.v) THEN userAgent
                           ELSE _userAgent
          /\ result' = [ op |-> "userAgent",
                         err |-> IF UserAgentTest(userAgent.v) THEN ""
                                 ELSE "ScraperError",
                         file |-> NoFile, userAgent |-> userAgent ]
    /\ Begin("userAgent", undefined, undefined)
    /\ UNCHANGED <<state, stack, silent, build, pending, calls, prevRequest,
                   saved, written>>

\* scraper.rateLimit = ms
SetRateLimit ==
    /\ stack = <<>>
    /\ \E ms \in IntervalArgs :
          /\ _rateLimit' = [_rateLimit EXCEPT !._interval = ms.v]
          /\ result' = [ op |-> "rateLimit", err |-> "", file |-> NoFile,
                         rateLimit |-> ms, warned |-> Warns(ms),
                         shown |-> Warns(ms) /\ Shows(silent) ]
    /\ Begin("rateLimit", undefined, undefined)
    /\ UNCHANGED <<_userAgent, courselistData, classData, now, stack,
                   jsonFile, silent, build, pending, calls, prevRequest,
                   saved, written>>

\* scraper.logging = bool
SetLogging ==
    /\ stack = <<>>
    /\ \E bool \in LoggingArgs :
          /\ silent' = IF bool.t = "bool" THEN ~bool.v ELSE silent
          /\ result' = [ op |-> "logging",
                         err |-> IF bool.t = "bool" THEN ""
                                 ELSE "ScraperError",
                         file |-> NoFile, bool |-> bool ]
    /\ Begin("logging", undefined, undefined)
    /\ UNCHANGED <<state, _userAgent, build, stack, pending, calls,
                   prevRequest, saved, written>>

\* the scraper as the caller's first new Scraper(userAgent, rateLimit) leaves
\* it, when that does not throw
InitConfig ==
    /\ \E userAgent \in UserAgentArgs,
          rateLimit \in IntervalArgs \cup {undefined} :
          /\ UserAgentTest(userAgent.v)
          /\ _userAgent = userAgent
          /\ _rateLimit = Constructed(rateLimit)
          /\ result =
               [ op |-> "new", err |-> "", file |-> NoFile,
                 userAgent |-> userAgent, rateLimit |-> rateLimit,
                 warned |-> Truthy(rateLimit) /\ Warns(rateLimit),
                 shown |-> Truthy(rateLimit) /\ Warns(rateLimit) ]
    /\ build = Modular
    /\ courselistData = NoData
    /\ classData = <<>>
    /\ now = Epoch
    /\ stack = <<>>
    /\ jsonFile = NoFile
    /\ silent = FALSE
    /\ pending = <<>>
    /\ calls = 0
    /\ entry = [ op |-> "new", subjectCode |-> undefined, term |-> undefined,
                 classData |-> <<>>, courselistData |-> courselistData,
                 _lastRequest |-> 0 ]
    /\ trace = <<>>
    /\ committed = <<>>
    /\ fault = NoFault
    /\ lastResp = NoResp
    /\ prevRequest = 0
    /\ saved = [has |-> FALSE, data |-> <<>>]
    /\ csvFile = NoFile
    /\ savedCsv = [has |-> FALSE, data |-> <<>>]

NextConfig ==
    \/ New
    \/ SetUserAgent
    \/ SetRateLimit
    \/ SetLogging

SpecConfig == InitConfig /\ [][NextConfig]_vars

\* ------------------------------------------------------------------------
\* Queries on the collection
\* ------------------------------------------------------------------------

\* x === y on the values a record holds: NaN equals nothing
StrictEquals(x, y) == x.t # "NaN" /\ x = y

\* the getters of Class: crn yields this._crn.toString(), the others the
\* stored field
Class_get(c, f) == IF f = "_crn" THEN Str(ToStringVal(c._crn)) ELSE c[f]

\* a lookup that keeps the last match
FindLast(data, f, x) ==
    LET hits == { i \in 1..Len(data) :
                     StrictEquals(Class_get(data[i], f), x) }
    IN IF hits = {} THEN undefined
       ELSE data[CHOOSE i \in hits : \A j \in hits : j <= i]

\* for (const classEntry of this.classData)
\*     if (classEntry.<getter> === x) return classEntry;
\* and undefined when the loop ends
RECURSIVE FindFirst(_, _, _)
FindFirst(data, f, x) ==
    IF data = <<>> THEN undefined
    ELSE IF StrictEquals(Class_get(Head(data), f), x) THEN Head(data)
    ELSE FindFirst(Tail(data), f, x)

\* the test of a findClassesBy* method on one record:
\* attributes.includes(x) for attributes, <getter> === x for the others
Selects(c, f, x) ==
    IF f = "_attributes"
    THEN \E i \in 1..Len(c._attributes.v) : c._attributes.v[i] = x
    ELSE StrictEquals(Class_get(c, f), x)

\* a filter that stops at its first match
FilterFirst(data, f, x) ==
    LET hits == { i \in 1..Len(data) : Selects(data[i], f, x) }
    IN IF hits = {} THEN <<>>
       ELSE <<data[CHOOSE i \in hits : \A j \in hits : i <= j]>>

\* this.classData.filter(classEntry => ...), and the loop with push of
\* findClassesByAttribute: the records the test selects, in order
RECURSIVE Filter(_, _, _)
Filter(data, f, x) ==
    IF data = <<>> THEN <<>>
    ELSE (IF Selects(Head(data), f, x) THEN <<Head(data)>> ELSE <<>>)
         \o Filter(Tail(data), f, x)

\* a second section of the course of RowOpen, under the same CRN
RowRepeat ==
    << <<"1", "2">>, <<"B", "1">>, <<"L">>, <<"U">>, <<"S">>, <<"3">>,
       <<"W">>, <<"3", "0">>, <<"1", "2">>, <<"5">>, CLOSED >>

\* the records a queried collection is made of
QueryRecords ==
    { createAndSaveClass(<<>>, Arr(TextRows(<<row>>)[1])).val[1] :
        row \in {RowOpen, RowClosed, RowVariable, RowRepeat} }
QueryCollections == UNION { [1..n -> QueryRecords] : n \in 0..MaxRecords }

\* what a caller asks for
CrnArgs == { Str(<<"1", "2">>), Str(<<"1", "3">>), Str(<<"9", "9", "9">>) }
CourseIDArgs == { Str(<<"B", "1">>), Str(<<"D", "1">>), Str(<<"Z", "9">>) }
AttributeArgs == { Str(<<"G">>), Str(<<"L">>), Str(<<"X">>) }
InstructorArgs == { Str(<<"S">>), Str(<<>>) }
CreditsArgs == { Num(3), Num(4), null }
TimesArgs == { Str(<<"M">>), Str(<<"W">>) }
ProjectedArgs == { Num(30), Num(10) }
CurrentArgs == { Num(12), Num(25) }
SeatsArgs == { Num(5), Num(-2) }
StatusArgs == { Str(OPEN), Str(CLOSED) }

\* a query returns found for the argument x: nothing else happens
Query(op, x, found) ==
    /\ stack = <<>>
    /\ result' = [ op |-> op, err |-> "", file |-> NoFile, arg |-> x,
                   found |-> found ]
    /\ Begin(op, undefined, undefined)
    /\ UNCHANGED <<state, stack, calls, prevRequest, saved, settings,
                   pending, written>>

FindClassByCrn ==
    \E crn \in CrnArgs :
        Query("findClassByCrn", crn, FindFirst(classData, "_crn", crn))

FindClassByCourseID ==
    \E courseID \in CourseIDArgs :
        Query("findClassByCourseID", courseID,
              FindFirst(classData, "_courseID", courseID))

FindClassesByAttribute ==
    \E attribute \in AttributeArgs :
        Query("findClassesByAttribute", attribute,
              Arr(Filter(classData, "_attributes", attribute)))

FindClassesByInstructor ==
    \E instructor \in InstructorArgs :
        Query("findClassesByInstructor", instructor,
              Arr(Filter(classData, "_instructor", instructor)))

FindClassesByCredits ==
    \E credits \in CreditsArgs :
        Query("findClassesByCredits", credits,
              Arr(Filter(classData, "_credits", credits)))

FindClassesByTimes ==
    \E times \in TimesArgs :
        Query("findClassesByTimes", times,
              Arr(Filter(classData, "_times", times)))

FindClassesByProjectedEnrollment ==
    \E projectedEnrollment \in ProjectedArgs :
        Query("findClassesByProjectedEnrollment", projectedEnrollment,
              Arr(Filter(classData, "_projectedEnrollment",
                         projectedEnrollment)))

FindClassesByCurrentEnrollment ==
    \E currentEnrollment \in CurrentArgs :
        Query("findClassesByCurrentEnrollment", currentEnrollment,
              Arr(Filter(classData, "_currentEnrollment",
                         currentEnrollment)))

FindClassesBySeatsAvailable ==
    \E seatsAvailable \in SeatsArgs :
        Query("findClassesBySeatsAvailable", seatsAvailable,
              Arr(Filter(classData, "_seatsAvailable", seatsAvailable)))

FindClassesByStatus ==
    \E status \in StatusArgs :
        Query("findClassesByStatus", status,
              Arr(Filter(classData, "_status", status)))

\* the scraper holds a collection that earlier fetches left
InitQuery ==
    /\ _userAgent = Str(Abcdef)
    /\ build = Modular
    /\ \E rateLimit \in RateLimitArgs : _rateLimit = Constructed(rateLimit)
    /\ courselistData = NoData
    /\ classData \in QueryCollections
    /\ now = Epoch
    /\ stack = <<>>
    /\ jsonFile = NoFile
    /\ silent = FALSE
    /\ pending = <<>>
    /\ calls = 0
    /\ result = [op |-> "new", err |-> "", file |-> NoFile]
    /\ entry = [ op |-> "new", subjectCode |-> undefined, term |-> undefined,
                 classData |-> classData, courselistData |-> courselistData,
                 _lastRequest |-> 0 ]
    /\ trace = <<>>
    /\ committed = classData
    /\ fault = NoFault
    /\ lastResp = NoResp
    /\ prevRequest = 0
    /\ saved = [has |-> FALSE, data |-> <<>>]
    /\ csvFile = NoFile
    /\ savedCsv = [has |-> FALSE, data |-> <<>>]

NextQuery ==
    \/ FindClassByCrn
    \/ FindClassByCourseID
    \/ FindClassesByAttribute
    \/ FindClassesByInstructor
    \/ FindClassesByCredits
    \/ FindClassesByTimes
    \/ FindClassesByProjectedEnrollment
    \/ FindClassesByCurrentEnrollment
    \/ FindClassesBySeatsAvailable
    \/ FindClassesByStatus

SpecQuery == InitQuery /\ [][NextQuery]_vars

\* ------------------------------------------------------------------------
\* The records: a caller (or the scraper, for a row of a table) assigns the
\* raw text of the seats-available cell to a record
\* ------------------------------------------------------------------------

\* what surrounds the number in the cell: blanks, line breaks and asterisks,
\* at most MaxPad on each side
PadChars == {" ", "\n", "\r", "*"}
Padding == UNION { [1..k -> PadChars] : k \in 0..MaxPad }

\* the integers the cell is written from, and the texts of the cell
SeatsIntegers == {12, -3}
SeatsTexts ==
    { [ n |-> n, text |-> Str(pre \o ToStringVal(Num(n)) \o post) ] :
        n \in SeatsIntegers, pre \in Padding, post \in Padding }

\* classEntry.seatsAvailable = text, on the record at place i
SetSeatsAvailable ==
    /\ stack = <<>>
    /\ \E i \in 1..Len(classData), seatsAvailable \in SeatsTexts :
          /\ classData' =
                 [classData EXCEPT ![i]._seatsAvailable =
                      Class_seatsAvailable(seatsAvailable.text).val]
          /\ result' = [ op |-> "seatsAvailable", err |-> "",
                         file |-> NoFile, arg |-> seatsAvailable.text,
                         literal |-> seatsAvailable.n, at |-> i ]
    /\ UNCHANGED <<_rateLimit, courselistData, now, jsonFile, stack, calls,
                   entry, trace, committed, fault, lastResp, prevRequest,
                   saved, settings, pending, written>>

\* the scraper holds one record that an earlier fetch left
InitClass ==
    /\ _userAgent = Str(Abcdef)
    /\ build = Modular
    /\ _rateLimit = Constructed(undefined)
    /\ courselistData = NoData
    /\ classData = createAndSaveClass(<<>>, Arr(TextRows(<<RowOpen>>)[1])).val
    /\ now = Epoch
    /\ stack = <<>>
    /\ jsonFile = NoFile
    /\ silent = FALSE
    /\ pending = <<>>
    /\ calls = 0
    /\ result = [op |-> "new", err |-> "", file |-> NoFile]
    /\ entry = [ op |-> "new", subjectCode |-> undefined, term |-> undefined,
                 classData |-> classData, courselistData |-> courselistData,
                 _lastRequest |-> 0 ]
    /\ trace = <<>>
    /\ committed = classData
    /\ fault = NoFault
    /\ lastResp = NoResp
    /\ prevRequest = 0
    /\ saved = [has |-> FALSE, data |-> <<>>]
    /\ csvFile = NoFile
    /\ savedCsv = [has |-> FALSE, data |-> <<>>]

NextClass == SetSeatsAvailable

SpecClass == InitClass /\ [][NextClass]_vars

\* ------------------------------------------------------------------------
\* Operations the caller does not await: an async method returns a promise
\* at its first await that is not settled, and the caller goes on.  Nothing
\* in the scraper holds a second call back while a first is suspended.
\* ------------------------------------------------------------------------

\* while the running operation awaits its response, the caller (who did not
\* await it) calls getTermsAndSubjects or getCourseData; the first operation
\* stays suspended (the bound is on the calls it holds)
CallWithoutAwait ==
    /\ stack # <<>>
    /\ Len(stack) <= MaxSuspended
    /\ Top.pc = "response"
    /\ pending = <<>>
    /\ calls < MaxCalls
    /\ calls' = calls + 1
    /\ pending' = stack
    /\ \/ /\ stack' = <<Frame("getTermsAndSubjects", "rateLimit",
                              undefined, undefined)>>
          /\ Begin("getTermsAndSubjects", undefined, undefined)
          /\ result' = [op |-> "getTermsAndSubjects", err |-> "pending",
                        file |-> NoFile]
       \/ \E subjectCode \in SubjectArgs, term \in TermArgs :
             /\ stack' = <<Frame("getCourseData", "start", subjectCode,
                                 term)>>
             /\ Begin("getCourseData", subjectCode, term)
             /\ result' = [op |-> "getCourseData", err |-> "pending",
                           file |-> NoFile]
    /\ UNCHANGED <<state, prevRequest, saved, settings, written>>

\* both operations await a response and the event loop turns to the other
Switch ==
    /\ stack # <<>>
    /\ Top.pc = "response"
    /\ pending # <<>>
    /\ stack' = pending
    /\ pending' = stack
    /\ UNCHANGED <<state, calls, history, settings, written>>

\* the running operation has ended and the suspended one goes on
Resume ==
    /\ stack = <<>>
    /\ pending # <<>>
    /\ stack' = pending
    /\ pending' = <<>>
    /\ UNCHANGED <<state, calls, history, settings, written>>

NextConcurrent ==
    \/ Next
    \/ CallWithoutAwait
    \/ Switch
    \/ Resume

SpecConcurrent == Init /\ [][NextConcurrent]_vars

\* ------------------------------------------------------------------------
\* Properties
\* ------------------------------------------------------------------------

\* the running (or last) operation is getCourseData without a subject
AllSubjectsCall ==
    /\ entry.op = "getCourseData"
    /\ ~Truthy(entry.subjectCode)

\* what getCourseData did in that operation: awaits of the rate limiter,
\* fetches and completed normalizations, in order
SubjectEvents == SelectSeq(trace, LAMBDA ev : ev.fn = "getCourseData")
SubjectFetches == SelectSeq(SubjectEvents, LAMBDA ev : ev.e = "fetch")
Steps == <<"await", "fetch", "done">>

\* C1: in an all-subjects call over the discovered list S, the rate-limiter
\* wait, the fetch and the normalization of S[1] all come before those of
\* S[2], and so on in the order of S, one fetch for each element of S and no
\* other; a call that returns has fetched every element of S.
C1_FetchesFollowSubjectList ==
    AllSubjectsCall =>
        /\ \A k \in 1..Len(SubjectEvents) :
              /\ k <= 3 * Len(courselistData.subjects.v)
              /\ SubjectEvents[k].e = Steps[((k - 1) % 3) + 1]
              /\ SubjectEvents[k].subjectCode =
                     courselistData.subjects.v[((k - 1) \div 3) + 1]
        /\ (stack = <<>> /\ result.err = "") =>
              Len(SubjectEvents) = 3 * Len(courselistData.subjects.v)

\* an all-subjects call has reached the second subject of its list
C1_SecondSubjectReached ==
    /\ AllSubjectsCall
    /\ Len(stack) >= 2
    /\ stack[1].pc = "loop"
    /\ stack[1].i = 2
    /\ Len(SubjectEvents) >= 3

\* C2: the timestamps two consecutive awaits of the rate limiter record in
\* _lastRequest differ by at least the interval (prevRequest is 0 until the
\* second await).
C2_ConsecutiveAwaitsApart ==
    prevRequest # 0 =>
        _rateLimit._lastRequest - prevRequest >= _rateLimit._interval

\* the rate limiter has been awaited twice
C2_SecondAwait == prevRequest # 0

\* the last operation loaded the file saveToJson wrote
ReloadedSaved ==
    /\ result.op = "loadFromJson"
    /\ saved.has
    /\ result.file = jsonFile

\* C3: saveToJson followed by loadFromJson of the written file succeeds and
\* leaves a collection equal to the saved one, record by record and field by
\* field, status and null credits included.
C3_JsonRoundTrip ==
    ReloadedSaved =>
        /\ result.err = ""
        /\ classData = saved.data

\* a collection holding a CLOSED record has been saved and loaded again
C3_ClosedRecordReloaded ==
    /\ ReloadedSaved
    /\ \E i \in 1..Len(saved.data) : saved.data[i]._status = Str(CLOSED)

\* an all-subjects call has failed while its loop was at a subject
FailedAtSubject ==
    /\ AllSubjectsCall
    /\ fault.at >= 1

\* C4: when a fetch or a normalization fails while an all-subjects call is
\* at subject S[i], every call ends and the caller receives that error,
\* nothing is awaited or fetched afterwards, and the records the earlier
\* subjects appended are still the head of the collection.
C4_FailureAbortsTraversal ==
    FailedAtSubject =>
        /\ stack = <<>>
        /\ result.op = "getCourseData"
        /\ result.err = fault.err
        /\ Len(trace) = fault.events
        /\ IsPrefix(committed, classData)

\* the second subject of an all-subjects call failed after the first had
\* appended records
C4_SecondSubjectFailed ==
    /\ FailedAtSubject
    /\ fault.at = 2
    /\ Len(committed) > Len(entry.classData)
    /\ \E k \in 1..Len(trace) :
          trace[k].e = "fetch" /\ trace[k].subjectCode = Str(CHEM)

\* the first row of the last result table whose status cell is neither
\* token, 0 when there is none
FirstOtherStatus ==
    LET bad == { k \in 1..Len(lastResp.table) :
                    /\ Len(lastResp.table[k]) = 11
                    /\ lastResp.table[k][11] \notin {Str(OPEN), Str(CLOSED)} }
    IN IF bad = {} THEN 0 ELSE CHOOSE k \in bad : \A j \in bad : k <= j

\* C5: every record of the collection has status OPEN or CLOSED; the status
\* setter throws for any other string, and a row with such a status makes
\* the call fail without that row (or any after it) entering the
\* collection.
C5_StatusIsOpenOrClosed ==
    /\ \A i \in 1..Len(classData) :
          classData[i]._status \in {Str(OPEN), Str(CLOSED)}
    /\ \A s \in OtherStatuses : ~Class_status(Str(s)).ok
    /\ (lastResp.has /\ FirstOtherStatus > 0) =>
          /\ fault.err = "Error"
          /\ result.err = "Error"
          /\ Len(classData) < Len(lastResp.before) + FirstOtherStatus

\* a table with another status arrived, after a record had been kept
C5_OtherStatusArrived ==
    /\ lastResp.has
    /\ FirstOtherStatus = 2
    /\ Len(classData) >= 1

\* the running (or last) call names a subject the scraper, holding a
\* subject list, does not know
UnknownSubjectCall ==
    /\ entry.op = "getCourseData"
    /\ Truthy(entry.subjectCode)
    /\ entry.courselistData.subjects.t = "arr"
    /\ ~Includes(entry.courselistData.subjects, entry.subjectCode)

\* C6: getCourseData for a subject that is not in the known subject list
\* ends in an error without awaiting the rate limiter or fetching, and
\* leaves classData, courselistData and _lastRequest as they were.
C6_UnknownSubjectRejected ==
    UnknownSubjectCall =>
        /\ trace = <<>>
        /\ \A k \in 1..Len(stack) : stack[k].pc \in {"start", "dispatch"}
        /\ stack = <<>> => result.err = "ScraperError"
        /\ classData = entry.classData
        /\ courselistData = entry.courselistData
        /\ _rateLimit._lastRequest = entry._lastRequest

\* such a call has ended, on a scraper that held records
C6_UnknownSubjectCalled ==
    /\ UnknownSubjectCall
    /\ stack = <<>>
    /\ result.err = "ScraperError"
    /\ entry.classData # <<>>
    /\ entry._lastRequest > 0

\* the running (or last) call is getCourseData, given no term, on a scraper
\* that holds none
NoTermCall ==
    /\ entry.op = "getCourseData"
    /\ ~Truthy(entry.term)
    /\ ~Truthy(entry.courselistData.terms.latest)

\* C7: a getCourseData call that finds no term set, whatever the subject
\* list holds, fetches the listing page before any subject; and when the
\* term is still unset after that, it fetches no subject and fails.
C7_DiscoveryBeforeFetch ==
    NoTermCall =>
        /\ \A k \in 1..Len(trace) :
              (trace[k].e = "fetch" /\ trace[k].fn = "getCourseData") =>
                  \E j \in 1..(k - 1) :
                      /\ trace[j].e = "fetch"
                      /\ trace[j].fn = "getTermsAndSubjects"
        /\ ~Truthy(courselistData.terms.latest) =>
              /\ SubjectFetches = <<>>
              /\ stack = <<>> => result.err # ""

\* a call without a term on a scraper holding a subject list has fetched
C7_NoTermButSubjects ==
    /\ NoTermCall
    /\ entry.courselistData.subjects.t = "arr"
    /\ SubjectFetches # <<>>

\* the pieces of a tabular file's text between line feeds, the empty piece
\* after a final line feed left out, and the header dropped
DataRows(file) ==
    LET pieces == Split(file.v.v, "\n")
        n == Len(pieces)
        lines == IF n > 0 /\ pieces[n] = <<>> THEN SubSeq(pieces, 1, n - 1)
                 ELSE pieces
    IN Tail(lines)

\* the last operation was a load that succeeded
Loaded ==
    /\ result.op \in {"loadFromJson", "loadFromCsv"}
    /\ result.err = ""

\* C8: after a successful loadFromJson or loadFromCsv the collection holds
\* one record for each record of the file, in the file's order, and nothing
\* else.
C8_LoadReplaces ==
    Loaded =>
        IF result.op = "loadFromJson"
        THEN /\ Len(classData) = Len(result.file.v.v)
             /\ \A k \in 1..Len(classData) :
                   classData[k] = LoadJsonEntry(result.file.v.v[k]).val
        ELSE /\ Len(classData) = Len(DataRows(result.file))
             /\ \A k \in 1..Len(classData) :
                   classData[k] = LoadCsvLine(DataRows(result.file)[k]).val

\* a load has succeeded on a scraper that held other records
C8_LoadedOverRecords ==
    /\ Loaded
    /\ entry.classData # <<>>
    /\ result.file.kind # "absent"

\* the first row of the last result table that has not 11 cells, 0 when
\* there is none
FirstWrongLength ==
    LET bad == { k \in 1..Len(lastResp.table) :
                    Len(lastResp.table[k]) # 11 }
    IN IF bad = {} THEN 0 ELSE CHOOSE k \in bad : \A j \in bad : k <= j

\* C9: a row that has not exactly 11 cells makes the call fail with an
\* error, and neither that row nor a later one adds a record.
C9_WrongLengthRejected ==
    (lastResp.has /\ FirstWrongLength > 0) =>
        /\ fault.err = "ScraperError"
        /\ result.err = "ScraperError"
        /\ stack = <<>>
        /\ IsPrefix(lastResp.before, classData)
        /\ Len(classData) < Len(lastResp.before) + FirstWrongLength

\* a table arrived whose second row is short, or whose only row is long
C9_WrongLengthArrived ==
    /\ lastResp.has
    /\ FirstWrongLength > 0
    /\ \/ /\ FirstWrongLength = 2
          /\ Len(lastResp.table[2]) < 11
          /\ Len(classData) = Len(lastResp.before) + 1
       \/ Len(lastResp.table[1]) > 11

\* C10: the file saveToJson writes holds one object per record whose _status
\* is the boolean true for an OPEN record and false for a CLOSED one, and
\* loadFromJson turns a persisted true into OPEN and a persisted false into
\* CLOSED.
C10_StatusPersistedAsBoolean ==
    /\ saved.has =>
          /\ Len(jsonFile.v.v) = Len(saved.data)
          /\ \A i \in 1..Len(saved.data) :
                jsonFile.v.v[i]._status =
                    Bool(saved.data[i]._status = Str(OPEN))
    /\ \A b \in BOOLEAN :
          LoadJsonEntry(DeclaredEntry(21, b)).val._status =
              IF b THEN Str(OPEN) ELSE Str(CLOSED)

\* a collection with records has been saved
C10_RecordsSaved ==
    /\ saved.has
    /\ saved.data # <<>>

\* the fields of a record that must hold a number
NumericFields ==
    {"_crn", "_projectedEnrollment", "_currentEnrollment", "_seatsAvailable"}

\* a row of 11 cells whose CRN, projected-enrollment, current-enrollment or
\* seats-available cell does not parse to an integer
NotNumericRow(row) ==
    /\ Len(row) = 11
    /\ \/ Class_crn(row[1]).val.t # "num"
       \/ Class_enrollment(row[8]).val.t # "num"
       \/ Class_enrollment(row[9]).val.t # "num"
       \/ Class_seatsAvailable(row[10]).val.t # "num"

\* the first such row of the last result table, 0 when there is none
FirstNotNumeric ==
    LET bad == { k \in 1..Len(lastResp.table) :
                    NotNumericRow(lastResp.table[k]) }
    IN IF bad = {} THEN 0 ELSE CHOOSE k \in bad : \A j \in bad : k <= j

\* C11: no record of the collection holds NaN (or anything but a number) as
\* its CRN, projected enrollment, current enrollment or seats available; a
\* row whose text for one of them does not parse to an integer makes the
\* call fail, and that row adds no record.
C11_NumericFieldsParsed ==
    /\ \A i \in 1..Len(classData) :
          \A f \in NumericFields : classData[i][f].t = "num"
    /\ (lastResp.has /\ FirstNotNumeric > 0) =>
          /\ result.err # ""
          /\ Len(classData) < Len(lastResp.before) + FirstNotNumeric

\* a table arrived whose first row has a CRN cell that is no number
C11_NotNumericArrived ==
    /\ lastResp.has
    /\ FirstNotNumeric = 1
    /\ Class_crn(lastResp.table[1][1]).val = NaN

\* the first data line of the loaded tabular file that has no eleventh
\* piece (no status), 0 when every line has one; the line after a final
\* line feed is one such
FirstWithoutStatus ==
    LET lines == Tail(Split(result.file.v.v, "\n"))
        bad == { k \in 1..Len(lines) : Len(Seperated(lines[k])) < 11 }
    IN IF bad = {} THEN 0 ELSE CHOOSE k \in bad : \A j \in bad : k <= j

\* the last operation was loadFromCsv of a file that exists
CsvLoaded ==
    /\ result.op = "loadFromCsv"
    /\ result.file.kind = "text"

\* C12: constructing a record from a row whose status is absent fails: a
\* line of a tabular file without a status piece makes loadFromCsv fail, and
\* neither that line nor a later one becomes a record (with status CLOSED or
\* any other).
C12_AbsentStatusRejected ==
    (CsvLoaded /\ FirstWithoutStatus > 0) =>
        /\ result.err # ""
        /\ Len(classData) < FirstWithoutStatus

\* a tabular file was loaded whose second line has no status
C12_LineWithoutStatus ==
    /\ CsvLoaded
    /\ FirstWithoutStatus = 2

\* C14: when the request of a discovery or of a subject fails in transport,
\* the caller receives a ScraperError, every call has ended, and nothing is
\* awaited or fetched after the failed request: the request is not sent
\* again.
C14_TransportFailureWrapped ==
    fault.transport =>
        /\ stack = <<>>
        /\ result.err = "ScraperError"
        /\ Len(trace) = fault.events
        /\ trace[Len(trace)].e = "fetch"

\* the request of a subject has failed in transport
C14_SubjectRequestFailed ==
    /\ fault.transport
    /\ trace[fault.events].fn = "getCourseData"

\* the calls st are suspended on a request that has been sent and not
\* answered
InFlight(st) == st # <<>> /\ st[Len(st)].pc = "response"

\* C13: at no time are two requests of the scraper in flight: of the
\* operations started on it, awaited or not, at most one is waiting for a
\* response, and within one operation only the innermost call ever is.
C13_OneRequestInFlight ==
    /\ ~(InFlight(stack) /\ InFlight(pending))
    /\ \A k \in 1..(Len(stack) - 1) : stack[k].pc # "response"

\* a second operation has been started while the first awaits its response
C13_SecondOperationStarted ==
    /\ InFlight(pending)
    /\ stack # <<>>

\* p is a sequence of subdomain labels, each followed by its dot
Labels(p) ==
    \/ p = <<>>
    \/ /\ p[Len(p)] = "."
       /\ p[1] # "."
       /\ AllIn(p, LabelChars \cup {"."})
       /\ \A i \in 1..(Len(p) - 1) : ~(p[i] = "." /\ p[i + 1] = ".")

\* d is wm.edu or email.wm.edu, possibly after subdomain labels
InstitutionalDomain(d) ==
    /\ Len(d) >= 6
    /\ SubSeq(d, Len(d) - 5, Len(d)) = WmEdu
    /\ Labels(SubSeq(d, 1, Len(d) - 6))

\* s has the form localpart@domain with such a domain
InFamily(s) ==
    \E a \in 2..Len(s) :
        /\ s[a] = "@"
        /\ AllIn(SubSeq(s, 1, a - 1), LocalChars)
        /\ InstitutionalDomain(SubSeq(s, a + 1, Len(s)))

\* C15: the constructor and the userAgent setter succeed exactly for the
\* identities of the form localpart@domain whose domain is wm.edu or
\* email.wm.edu, possibly after subdomain labels, and throw for every other
\* string; so the identity the scraper holds, and sends with every request,
\* is always of that form.
C15_IdentityAllowListed ==
    /\ InFamily(_userAgent.v)
    /\ result.op \in {"new", "userAgent"} =>
          (result.err = "" <=> InFamily(result.userAgent.v))
    /\ \A k \in 1..Len(trace) : InFamily(trace[k].userAgent.v)

\* an identity whose domain is not in the family has been assigned
C15_OutsideIdentityAssigned ==
    /\ result.op = "userAgent"
    /\ ~InFamily(result.userAgent.v)

\* C18: a scraper constructed without a rateLimit has the interval 500, and
\* one constructed with the number v, 0 included, has the interval v.
C18_IntervalIsOverride ==
    (result.op = "new" /\ result.err = "") =>
        _rateLimit._interval =
            IF result.rateLimit = undefined THEN DefaultInterval
            ELSE result.rateLimit.v

\* a scraper has been constructed with the rateLimit 0
C18_ConstructedWithZero ==
    /\ result.op = "new"
    /\ result.err = ""
    /\ result.rateLimit = Num(0)

\* the last operation assigned an interval below 500 through the rateLimit
\* setter, directly or from the constructor
LowIntervalAssigned ==
    /\ \/ result.op = "rateLimit"
       \/ result.op = "new" /\ result.err = "" /\ Truthy(result.rateLimit)
    /\ result.rateLimit.v < WarnBelow

\* C19, as the code has it: assigning an interval below 500 never throws and
\* leaves no call pending, the value is stored as the interval, and the
\* warning is given to the logger every time; it reaches the caller exactly
\* when the logger has not been silenced (logging = false).
C19_LowIntervalWarned ==
    LowIntervalAssigned =>
        /\ result.err = ""
        /\ stack = <<>>
        /\ _rateLimit._interval = result.rateLimit.v
        /\ result.warned
        /\ result.shown <=> ~silent

\* C19, as stated: assigning an interval below 500 never throws, stores the
\* value, and every such assignment shows the caller a warning.
C19_LowIntervalWarningShown ==
    LowIntervalAssigned =>
        /\ result.err = ""
        /\ stack = <<>>
        /\ _rateLimit._interval = result.rateLimit.v
        /\ result.shown

\* an interval below 500 has been assigned while the logger was silenced
C19_AssignedWhileSilenced ==
    /\ LowIntervalAssigned
    /\ result.op = "rateLimit"
    /\ silent

\* the positions of the collection whose CRN is the number c names, or whose
\* course ID is c
Lookups == {"findClassByCrn", "findClassByCourseID"}
LookupHits ==
    { i \in 1..Len(classData) :
         IF result.op = "findClassByCrn"
         THEN classData[i]._crn = parseIntStr(result.arg.v)
         ELSE classData[i]._courseID = result.arg }

\* C16: findClassByCrn(c) and findClassByCourseID(c) return, without
\* throwing, the first record of the collection whose CRN (course ID) equals
\* c, and an absent value when no record matches; the collection is as it
\* was.
C16_FirstMatchOrAbsent ==
    result.op \in Lookups =>
        /\ result.err = ""
        /\ classData = entry.classData
        /\ result.found =
              IF LookupHits = {} THEN undefined
              ELSE classData[CHOOSE i \in LookupHits :
                                \A j \in LookupHits : i <= j]

\* a CRN was looked up that two different records carry, the first of them
\* not at the head of the collection; and one that no record carries
C16_LaterOfTwoMatches ==
    /\ result.op = "findClassByCrn"
    /\ \E i, j \in LookupHits :
          /\ 1 < i
          /\ i < j
          /\ classData[i] # classData[j]
          /\ result.found = classData[i]

\* the field each filter compares its argument with
FilterField ==
    [ findClassesByAttribute |-> "_attributes",
      findClassesByInstructor |-> "_instructor",
      findClassesByCredits |-> "_credits",
      findClassesByTimes |-> "_times",
      findClassesByProjectedEnrollment |-> "_projectedEnrollment",
      findClassesByCurrentEnrollment |-> "_currentEnrollment",
      findClassesBySeatsAvailable |-> "_seatsAvailable",
      findClassesByStatus |-> "_status" ]

\* the record c satisfies the predicate of the last query
Satisfies(c) ==
    IF result.op = "findClassesByAttribute"
    THEN result.arg \in { c._attributes.v[i] : i \in 1..Len(c._attributes.v) }
    ELSE c[FilterField[result.op]] = result.arg

\* C17: a findClassesBy* filter returns the records of the collection that
\* satisfy its predicate (the attribute is one of the record's, or the field
\* equals the argument), all of them and no other, in the collection's
\* order, and leaves the collection as it was.
C17_FilterReturnsMatches ==
    result.op \in DOMAIN FilterField =>
        /\ result.err = ""
        /\ classData = entry.classData
        /\ result.found = Arr(SelectSeq(classData, Satisfies))

\* a filter has returned two different records and left one out
C17_TwoOfThreeSelected ==
    /\ result.op \in DOMAIN FilterField
    /\ Len(classData) = 3
    /\ Len(result.found.v) = 2
    /\ result.found.v[1] # result.found.v[2]

\* the characters that delimit the tabular file, or that loadFromCsv gives
\* a meaning to
Delimiters == {",", "-", "\"", "\n", "\r", "[", "]"}

\* every attribute of every record of data is one token, and no text of a
\* record holds a delimiter
SingleTokens(data) ==
    \A i \in 1..Len(data) :
        /\ \A k \in 1..Len(data[i]._attributes.v) :
              /\ data[i]._attributes.v[k].v # <<>>
              /\ \A n \in 1..Len(data[i]._attributes.v[k].v) :
                    data[i]._attributes.v[k].v[n] \notin Delimiters
        /\ \A f \in {"_courseID", "_title", "_instructor", "_times"} :
              \A n \in 1..Len(data[i][f].v) : data[i][f].v[n] \notin Delimiters

AttributeLists(data) == [i \in 1..Len(data) |-> data[i]._attributes]

\* the last operation loaded the file saveToCsv wrote
CsvReloaded ==
    /\ result.op = "loadFromCsv"
    /\ savedCsv.has
    /\ result.file = csvFile

\* C20: when the attributes of the saved records are single tokens and no
\* text of theirs holds a delimiter, saveToCsv followed by loadFromCsv of
\* the written file succeeds and yields records whose attribute lists are
\* those of the saved records, one for one.
C20_CsvAttributesRoundTrip ==
    (CsvReloaded /\ SingleTokens(savedCsv.data)) =>
        /\ result.err = ""
        /\ AttributeLists(classData) = AttributeLists(savedCsv.data)

\* such records, one of them with two attributes, were saved and reloaded
C20_TokensReloaded ==
    /\ CsvReloaded
    /\ SingleTokens(savedCsv.data)
    /\ \E i \in 1..Len(savedCsv.data) :
          Len(savedCsv.data[i]._attributes.v) = 2


\* the fetches of the running (or last) operation
Fetches == SelectSeq(trace, LAMBDA ev : ev.e = "fetch")

\* C21: every fetch, of the listing page or of a subject, comes right after
\* an await of the rate limiter made by the same call, with no other fetch
\* between the two; and when that await returns, _lastRequest is the clock's
\* reading at that moment, as it still is when the request is sent.
C21_FetchFollowsAwait ==
    /\ \A k \in 1..Len(trace) :
          trace[k].e = "fetch" =>
              /\ k > 1
              /\ trace[k - 1].e = "await"
              /\ trace[k - 1].fn = trace[k].fn
              /\ trace[k - 1].subjectCode = trace[k].subjectCode
    /\ (stack # <<>> /\ Top.pc = "request") =>
          /\ trace # <<>>
          /\ trace[Len(trace)].e = "await"
          /\ _rateLimit._lastRequest = now
    /\ (stack # <<>> /\ Top.pc = "response") =>
          _rateLimit._lastRequest = now

\* a second request has been sent, after time had passed since the first
C21_SecondFetchSent ==
    /\ stack # <<>>
    /\ Top.pc = "response"
    /\ Len(Fetches) >= 2
    /\ now > Epoch


\* C22: an all-subjects call over the discovered list issues at most one
\* subject fetch for each element of the list, whatever strings the list
\* holds (none, or an empty one among them); the loop calls getCourseData
\* for one subject at a time and no deeper, so that it ends after the last
\* element when every fetch returns.
C22_OneFetchPerSubject ==
    AllSubjectsCall =>
        /\ \A k \in 1..Len(SubjectFetches) :
              k <= Len(courselistData.subjects.v)
        /\ \A k \in 3..Len(stack) : stack[k].fn # "getCourseData"

\* the loop of an all-subjects call has come to an empty subject code
C22_EmptyCodeReached ==
    /\ AllSubjectsCall
    /\ Len(stack) >= 2
    /\ stack[1].pc = "loop"
    /\ stack[2].fn = "getCourseData"
    /\ stack[2].subjectCode = Str(<<>>)


\* the last response of the running (or last) operation was a listing page
PageArrived == "page" \in DOMAIN lastResp

\* C23: after a discovery that succeeds on a page whose term dropdown has
\* the options t1..tn, n >= 2, and whose subject dropdown has the options
\* s0..sm, the latest term is t(n-1), the list of terms is t1..tn, and the
\* subject list is s1..sm in the order of the page; nothing of what was
\* stored before remains.
C23_DiscoveryOverwrites ==
    ( /\ PageArrived
      /\ lastResp.page.terms.t = "arr"
      /\ lastResp.page.subjects.t = "arr"
      /\ Len(lastResp.page.terms.v) >= 2 ) =>
        /\ lastResp.err = ""
        /\ courselistData.terms.latest =
               lastResp.page.terms.v[Len(lastResp.page.terms.v) - 1]
        /\ courselistData.terms.all = lastResp.page.terms
        /\ courselistData.subjects.t = "arr"
        /\ Len(courselistData.subjects.v) = Len(lastResp.page.subjects.v) - 1
        /\ \A i \in 1..Len(courselistData.subjects.v) :
              courselistData.subjects.v[i] = lastResp.page.subjects.v[i + 1]

\* a second discovery has succeeded on a page with another latest term and
\* fewer subjects than the scraper held
C23_SecondDiscoveryOverwrote ==
    /\ PageArrived
    /\ lastResp.err = ""
    /\ entry.courselistData.subjects.t = "arr"
    /\ Len(courselistData.subjects.v) < Len(entry.courselistData.subjects.v)
    /\ courselistData.terms.latest # entry.courselistData.terms.latest

\* the discovery of the running (or last) operation has failed: its request
\* in transport, or the parsing of the page that arrived
DiscoveryFailed ==
    \/ PageArrived /\ lastResp.err # ""
    \/ /\ fault.transport
       /\ trace[fault.events].fn = "getTermsAndSubjects"

\* C24: when getTermsAndSubjects fails, in transport or because a dropdown
\* of the page is missing, the latest term, the list of terms and the
\* subject list are what they were before the call.
C24_FailedDiscoveryKeepsState ==
    DiscoveryFailed => courselistData = entry.courselistData

\* a page with a term dropdown and no subject dropdown has arrived
C24_SubjectDropdownMissing ==
    /\ PageArrived
    /\ lastResp.err # ""
    /\ lastResp.page.terms.t = "arr"
    /\ lastResp.page.subjects = null


\* the last operation was a loadFromJson that failed
JsonLoadFailed ==
    /\ result.op = "loadFromJson"
    /\ result.err # ""

\* C25: when loadFromJson fails, whatever the reason (the file cannot be
\* read or parsed, the parsed value is no array, an entry cannot be made a
\* record), the collection is the one the scraper held before the call,
\* neither emptied nor partly filled.
C25_FailedLoadKeepsCollection ==
    JsonLoadFailed => classData = entry.classData

\* a file that parses to a value that is no array was loaded by a scraper
\* holding records
C25_NotAnArrayLoaded ==
    /\ JsonLoadFailed
    /\ result.file.kind = "json"
    /\ result.file.v.t # "arr"
    /\ entry.classData # <<>>


\* the record a row of 11 well-formed cells normalizes to, on its own
RecordOfRow(row) ==
    LET made == createAndSaveClass(<<>>, Arr(row))
    IN IF made.ok THEN made.val[1] ELSE null

\* the records of the first n rows of a table, in the order of the rows
RecordsOfRows(table, n) == [k \in 1..n |-> RecordOfRow(table[k])]

\* in every step of the network operations the collection before is a
\* prefix of the collection after; when it grows, it grows by the records of
\* the first rows of the table that arrived, in the order of the rows; and
\* a subject that completes has appended the record of every row of its
\* table, whether or not the collection held equal records already
AppendOnlySteps ==
    [][ /\ IsPrefix(classData, classData')
        /\ classData' # classData =>
              /\ lastResp'.has
              /\ lastResp'.before = classData
              /\ \E n \in 1..Len(lastResp'.table) :
                    classData' =
                        classData \o RecordsOfRows(lastResp'.table, n)
        /\ ( /\ Len(trace') = Len(trace) + 1
             /\ trace'[Len(trace')].e = "done" ) =>
              classData' =
                  classData
                  \o RecordsOfRows(lastResp'.table, Len(lastResp'.table)) ]_vars

\* the subjects that appended their records in the running (or last)
\* operation, in the order they did
Completed == SelectSeq(trace, LAMBDA ev : ev.e = "done")

\* C26: during a getCourseData call the collection the call found is a
\* prefix of the collection; the records a table added are those of its
\* first rows, in the order of the rows, appended after the collection as
\* it was, equal records included; and in an all-subjects call the subjects
\* append their records in the order of the subject list, the k-th to append
\* being the k-th of the list.
C26_AppendedInListOrder ==
    entry.op = "getCourseData" =>
        /\ IsPrefix(entry.classData, classData)
        /\ lastResp.has =>
              classData =
                  lastResp.before
                  \o RecordsOfRows(lastResp.table,
                                   Len(classData) - Len(lastResp.before))
        /\ AllSubjectsCall =>
              \A k \in 1..Len(Completed) :
                  /\ k <= Len(courselistData.subjects.v)
                  /\ Completed[k].subjectCode = courselistData.subjects.v[k]

\* two subjects of one all-subjects call have appended records to a
\* collection that held some
C26_TwoSubjectsAppended ==
    /\ AllSubjectsCall
    /\ Len(Completed) >= 2
    /\ Completed[1].subjectCode # Completed[2].subjectCode
    /\ lastResp.has
    /\ lastResp.before # <<>>
    /\ Len(classData) > Len(lastResp.before)


\* what createAndSaveClass returns or throws for each row of each table the
\* registrar can answer with, on its own
RowOutcomes ==
    [tb \in Tables |->
        [k \in 1..Len(tb) |-> createAndSaveClass(<<>>, Arr(tb[k]))]]

\* the first row of the last result table that createAndSaveClass throws
\* for, 0 when there is none
FirstFailing ==
    LET bad == { k \in 1..Len(lastResp.table) :
                    ~RowOutcomes[lastResp.table][k].ok }
    IN IF bad = {} THEN 0 ELSE CHOOSE k \in bad : \A j \in bad : k <= j

\* C27: when row k of a subject's table fails normalization, the collection
\* is the one before the table followed by the records of rows 1..k-1 and
\* nothing else: row k adds nothing, no row after k is processed, the
\* subject does not complete, and every call ends with the error of row k.
C27_RowFailureKeepsEarlierRows ==
    (lastResp.has /\ FirstFailing > 0) =>
        /\ classData =
               lastResp.before
               \o [k \in 1..(FirstFailing - 1) |->
                      RowOutcomes[lastResp.table][k].val[1]]
        /\ stack = <<>>
        /\ result.err = RowOutcomes[lastResp.table][FirstFailing].err
        /\ trace[Len(trace)].e = "fetch"
        /\ committed = lastResp.before

\* the second of three rows failed, after the first had added its record
C27_MiddleRowFailed ==
    /\ lastResp.has
    /\ FirstFailing = 2
    /\ Len(lastResp.table) = 3
    /\ RecordOfRow(lastResp.table[3]) # null
    /\ Len(classData) = Len(lastResp.before) + 1


\* C28: a loadFromCsv that succeeds leaves exactly one record for each data
\* row of the file, N records for a header line and N data rows, whether or
\* not the text ends with a line feed; the header is no record.
C28_OneRecordPerDataRow ==
    (CsvLoaded /\ result.err = "") =>
        Len(classData) = Len(DataRows(result.file))

\* a file of a header line and one data row, ended by a line feed, was
\* loaded
C28_TerminatedFileLoaded ==
    /\ CsvLoaded
    /\ Len(DataRows(result.file)) = 1
    /\ result.file.v.v[Len(result.file.v.v)] = "\n"


\* C29: a seats-available text that is an integer literal, negative or not,
\* with blanks, line breaks and asterisks (any number of them) before and
\* after it normalizes to that integer; "12*\n" gives 12.
C29_SeatsTextYieldsInteger ==
    /\ Class_seatsAvailable(Str(<<"1", "2", "*", "\n">>)).val = Num(12)
    /\ result.op = "seatsAvailable" =>
          classData[result.at]._seatsAvailable = Num(result.literal)

\* a text with two asterisks before the number has been assigned
C29_TwoAsterisksBefore ==
    /\ result.op = "seatsAvailable"
    /\ SubSeq(result.arg.v, 1, 2) = <<"*", "*">>


\* C30: httpRequest called without options, as getTermsAndSubjects calls it,
\* does not throw its wrong-data-type error: every discovery that has
\* awaited the rate limiter sends one GET with the scraper's identity as
\* User-Agent right after, so that a discovery always reaches the network.
C30_DiscoveryReachesNetwork ==
    \A k \in 1..Len(trace) :
          (trace[k].e = "await" /\ trace[k].fn = "getTermsAndSubjects") =>
              IF k = Len(trace)
              THEN /\ stack # <<>>
                   /\ Top.fn = "getTermsAndSubjects"
                   /\ Top.pc = "request"
              ELSE /\ trace[k + 1].e = "fetch"
                   /\ trace[k + 1].fn = "getTermsAndSubjects"
                   /\ trace[k + 1].method = "GET"
                   /\ trace[k + 1].userAgent = _userAgent

\* a discovery has awaited the rate limiter and called httpRequest(url) in
\* the copy of src/scraper.ts
C30_CalledWithoutOptions ==
    /\ build = Bundled
    /\ trace # <<>>
    /\ trace[Len(trace)].fn = "getTermsAndSubjects"
    /\ stack = <<>>

====
